---- MODULE Spec2Model ----
(***************************************************************************)
(* SNAS credential authority: the KV-backed CredStore with its watched     *)
(* read cache (src/src/storage.rs), the Handlers and their password reset  *)
(* state machine (src/src/handlers.rs), and the envelopes the user/admin   *)
(* servers answer with (src/src/servers).                                  *)
(*                                                                         *)
(* Every handler call is a task that advances from one suspension point    *)
(* (.await on the bucket or on the cache lock) to the next; tasks of one   *)
(* or several replicas interleave between suspension points.               *)
(***************************************************************************)
EXTENDS Integers, Sequences, FiniteSets, TLC

\* ------------------------------------------------------------------ bounds
NumTasks == 2          \* handler calls that can be in flight at once
NumReplicas == 2       \* CredStore instances sharing the bucket
MaxOps == 2            \* calls started in one behaviour of Spec
SeqMaxOps == 3         \* calls started in one behaviour of SeqSpec
MaxTicks == 1          \* clock advances in one behaviour
StoreMaxOps == 2       \* calls started in one behaviour of StoreSpec
SockMaxReqs == 2       \* requests written on the connection in one behaviour of SockSpec
MaxFaults == 1         \* bucket requests that can fail in one behaviour of StoreSpec
BootMaxOps == 2        \* calls started in one behaviour of BootSpec
RaceMaxOps == 2        \* calls started in one behaviour of RaceSpec
EnvMaxOps == 2         \* envelopes emitted or decoded in one behaviour of EnvSpec
BusMaxOps == 2         \* messages the bus servers receive in one behaviour of BusSpec
NumCallers == 2        \* tasks that share one SocketClient in ClientSpec

Tasks == 1..NumTasks
Replicas == 1..NumReplicas
Users == {"foo"}
Groups == 1..2
Passwords == {<<"pw", 1>>, <<"pw", 2>>}

\* handlers.rs: const DEFAULT_RESET_EXPIRY (seconds); the clock of the model
\* advances in steps of one day
DEFAULT_RESET_EXPIRY == 60 * 60 * 24
TickStep == 60 * 60 * 24

VARIABLES
    bucket,     \* KV bucket: username -> latest entry of the key
    seq,        \* last sequence number of the bucket's stream
    feed,       \* per replica: change-feed entries not yet handled by the watcher
    cache,      \* per replica: CredStore.cache, username -> Option<UserInfo>
    now,        \* wall clock, seconds since the epoch
    ticks,      \* clock advances so far
    entropy,    \* draws taken from OsRng so far (salts and temporary passwords)
    faults,     \* bucket requests that may still fail
    task,       \* per task: the handler call in flight (or the last one) and its locals
    issued,     \* temporary passwords returned by reset_password so far
    ops,        \* calls started so far
    hist,       \* completed calls, in completion order, with what was answered
    boot,       \* per replica: position of CredStore::new, and its locals
    wire,       \* socket connection: bytes the client wrote that the server has not read
    rbuf,       \* socket connection: the buffer of the server's BufReader
    back,       \* socket connection: bytes the server wrote that the client has not read
    srv,        \* SocketHandler of the connection: position in handle / parse_incoming
    cli         \* the peer of the connection: what it wrote, SocketClient's position

storevars ==
    <<bucket, seq, feed, cache, now, ticks, entropy, faults, task, issued, ops, hist, boot>>
sockvars == <<wire, rbuf, back, srv, cli>>
vars == <<storevars, sockvars>>

\* ------------------------------------------------------------ Option<T>
None == [some |-> FALSE]
Some(x) == [some |-> TRUE, val |-> x]

\* ------------------------------------------------- types (src/src/types)
NoPhase == [kind |-> "None", expiry |-> 0]
Reset(e) == [kind |-> "Reset", expiry |-> e]
InitialLogin(e) == [kind |-> "InitialLogin", expiry |-> e]
Locked == [kind |-> "Locked", expiry |-> 0]

UserInfo(h, p, g) == [hashed_password |-> h, password_reset |-> p, groups |-> g]

\* ---------------------------------------------------- bincode of UserInfo
RECURSIVE SortedSeq(_)
SortedSeq(S) ==
    IF S = {} THEN <<>>
    ELSE LET m == CHOOSE x \in S : \A y \in S : x <= y
         IN <<m>> \o SortedSeq(S \ {m})

EncodePhase(p) ==
    CASE p.kind = "None" -> <<0>>
      [] p.kind = "Reset" -> <<1, 0, p.expiry>>
      [] p.kind = "InitialLogin" -> <<1, 1, p.expiry>>
      [] OTHER -> <<1, 2>>

DecodePhase(b) ==
    IF b[1] = 0 THEN NoPhase
    ELSE CASE b[2] = 0 -> Reset(b[3])
           [] b[2] = 1 -> InitialLogin(b[3])
           [] OTHER -> Locked

Encode(info) ==
    <<info.hashed_password, EncodePhase(info.password_reset), SortedSeq(info.groups)>>

Decode(v) ==
    UserInfo(v[1], DecodePhase(v[2]), {v[3][i] : i \in DOMAIN v[3]})

\* ------------------------------------------------------------- the bucket
NoEntry == [operation |-> "Absent", revision |-> 0, value |-> <<>>]

\* Store::entry: the latest entry of the key, tombstones included
StoreEntry(u) == IF bucket[u].operation = "Absent" THEN None ELSE Some(bucket[u])

\* mutant: the bucket is not consulted
StoreGet_miss(u) == None

\* Store::get: the value of the key unless its latest entry is a tombstone
StoreGet(u) == IF bucket[u].operation = "Put" THEN Some(bucket[u].value) ELSE None

\* what a request to the bucket can do: succeed, or fail while faults remain
Outcomes == IF faults > 0 THEN {TRUE, FALSE} ELSE {TRUE}

Publish(f, e) == [r \in Replicas |-> Append(f[r], e)]

\* ------------------------------------------------------------- handlers.rs
hash_password(p, salt) == [alg |-> "argon2id", salt |-> salt, digest |-> <<p, salt>>]

\* mutant: the outcome of the comparison is dropped
verify_password_any(user, p) == TRUE

verify_password(user, p) ==
    user.hashed_password.digest = <<p, user.hashed_password.salt>>

\* mutant: the expiry is the duration, not a point in time
get_expiry_duration_relative(t) == t

get_expiry_duration(t) == now + t

Token(n) == <<"tok", n>>

\* mutant: a reset is still usable at its expiry (now <= expiry)
enforce_login_state_inclusive(user, is_password_change) ==
    LET ph == user.password_reset IN
    CASE ph.kind = "Reset" ->
            IF now <= ph.expiry
            THEN [put |-> TRUE, allowed |-> TRUE,
                  user |-> [user EXCEPT !.password_reset = InitialLogin(ph.expiry)]]
            ELSE [put |-> TRUE, allowed |-> FALSE,
                  user |-> [user EXCEPT !.password_reset = Locked]]
      [] ph.kind = "InitialLogin" /\ is_password_change ->
            IF now >= ph.expiry
            THEN [put |-> TRUE, allowed |-> FALSE,
                  user |-> [user EXCEPT !.password_reset = Locked]]
            ELSE [put |-> FALSE, allowed |-> TRUE, user |-> user]
      [] ph.kind = "InitialLogin" ->
            [put |-> TRUE, allowed |-> FALSE,
             user |-> [user EXCEPT !.password_reset = Locked]]
      [] ph.kind = "Locked" ->
            [put |-> FALSE, allowed |-> FALSE, user |-> user]
      [] OTHER ->
            [put |-> FALSE, allowed |-> TRUE, user |-> user]

\* enforce_login_state up to its put_user: the record to write (if any), and
\* whether the call may go on
enforce_login_state(user, is_password_change) ==
    LET ph == user.password_reset IN
    CASE ph.kind = "Reset" ->
            IF now < ph.expiry
            THEN [put |-> TRUE, allowed |-> TRUE,
                  user |-> [user EXCEPT !.password_reset = InitialLogin(ph.expiry)]]
            ELSE [put |-> TRUE, allowed |-> FALSE,
                  user |-> [user EXCEPT !.password_reset = Locked]]
      [] ph.kind = "InitialLogin" /\ is_password_change ->
            IF now >= ph.expiry
            THEN [put |-> TRUE, allowed |-> FALSE,
                  user |-> [user EXCEPT !.password_reset = Locked]]
            ELSE [put |-> FALSE, allowed |-> TRUE, user |-> user]
      [] ph.kind = "InitialLogin" ->
            [put |-> TRUE, allowed |-> FALSE,
             user |-> [user EXCEPT !.password_reset = Locked]]
      [] ph.kind = "Locked" ->
            [put |-> FALSE, allowed |-> FALSE, user |-> user]
      [] OTHER ->
            [put |-> FALSE, allowed |-> TRUE, user |-> user]

\* ----------------------------------------------------------------- results
Ok(v) == [ok |-> TRUE, err |-> "", text |-> "", val |-> v]
Err(kind, text) == [ok |-> FALSE, err |-> kind, text |-> text, val |-> <<>>]

UsernameTaken == Err("UsernameTaken", "Username already exists")
InvalidCredentials == Err("InvalidCredentials", "Invalid username or password")
PasswordResetExpired == Err("PasswordResetExpired", "Password reset has expired")
UsernameDoesNotExist == Err("UsernameDoesNotExist", "Username does not exist")
SystemError(text) == Err("SystemError", text)

\* mutant: needs_password_reset is never raised
VerifyOutcome_noflag(user, password) ==
    IF verify_password(user, password)
    THEN Ok([valid |-> TRUE, message |-> "Successfully verified",
             needs_password_reset |-> FALSE,
             groups |-> user.groups])
    ELSE InvalidCredentials

\* Handlers::verify once enforce_login_state has let the call through
VerifyOutcome(user, password) ==
    IF verify_password(user, password)
    THEN Ok([valid |-> TRUE, message |-> "Successfully verified",
             needs_password_reset |-> user.password_reset.kind # "None",
             groups |-> user.groups])
    ELSE InvalidCredentials

\* --------------------------------------------------------------- envelopes
GenericResponse(success, message, response) ==
    [success |-> success, message |-> message, response |-> response]

\* mutant: a payload is handed out whenever the envelope carries one
into_result_required_lenient(env) ==
    CASE env.response.some -> Ok(env.response.val)
      [] env.success -> Err("anyhow", "Request was successful but contained no response")
      [] OTHER -> Err("anyhow", env.message)

\* into_result_required of the envelope a client received
into_result_required(env) ==
    CASE env.success /\ env.response.some -> Ok(env.response.val)
      [] env.success -> Err("anyhow", "Request was successful but contained no response")
      [] OTHER -> Err("anyhow", env.message)

\* into_result_empty of the envelope a client received
into_result_empty(env) ==
    IF env.success THEN Ok(<<>>) ELSE Err("anyhow", env.message)

DeniedResponse(e, needs_reset) ==
    [valid |-> FALSE, message |-> e.text, needs_password_reset |-> needs_reset,
     groups |-> {}]

\* mutant: an expired reset is reported as a failed call
NatsHandleVerify_strict(r) ==
    CASE r.ok -> GenericResponse(TRUE, <<"Verification succeeded">>, Some(r.val))
      [] r.err = "InvalidCredentials" ->
            GenericResponse(TRUE, <<"Verification failed">>,
                            Some(DeniedResponse(InvalidCredentials, FALSE)))
      [] OTHER -> GenericResponse(FALSE, <<"verification failed: ", r.text>>, None)

\* NatsUserServer::handle_verify: the envelope published for a handler result
NatsHandleVerify(r) ==
    CASE r.ok -> GenericResponse(TRUE, <<"Verification succeeded">>, Some(r.val))
      [] r.err = "InvalidCredentials" ->
            GenericResponse(TRUE, <<"Verification failed">>,
                            Some(DeniedResponse(InvalidCredentials, FALSE)))
      [] r.err = "PasswordResetExpired" ->
            GenericResponse(TRUE, <<"Verification failed">>,
                            Some(DeniedResponse(PasswordResetExpired, TRUE)))
      [] OTHER -> GenericResponse(FALSE, <<"verification failed: ", r.text>>, None)

\* SocketHandler::handle_verify: the envelope written for a handler result
SocketHandleVerify(r) ==
    CASE r.ok -> GenericResponse(TRUE, <<"Verification succeeded">>, Some(r.val))
      [] r.err = "InvalidCredentials" ->
            GenericResponse(TRUE, <<"Verification failed">>,
                            Some(DeniedResponse(InvalidCredentials, FALSE)))
      [] r.err = "PasswordResetExpired" ->
            GenericResponse(TRUE, <<"Verification failed">>,
                            Some(DeniedResponse(PasswordResetExpired, TRUE)))
      [] OTHER -> GenericResponse(FALSE, <<"verification failed: ", r.text>>, None)

\* handle_change_password of both user servers
HandleChangePassword(r) ==
    IF r.ok THEN GenericResponse(TRUE, <<"password changed">>, None)
    ELSE GenericResponse(FALSE, <<"password change failed: ", r.text>>, None)

\* NatsAdminServer: the handler each action is dispatched to
AdminRoute(action) ==
    CASE action = "add_user" -> "add"
      [] action = "remove_user" -> "delete"
      [] action = "reset_password" -> "reset_password"
      [] action = "add_groups" -> "add_groups"
      [] action = "remove_groups" -> "add_groups"
      [] action = "get_user" -> "get"
      [] action = "list_users" -> "list"
      [] OTHER -> "none"

\* mutant: every success is answered with GenericResponse::new, no payload
AdminEnvelope_bare(action, username, r) ==
    IF r.ok THEN GenericResponse(TRUE, <<"done ", username>>, None)
    ELSE GenericResponse(FALSE, <<"failed: ", r.text>>, None)

\* NatsAdminServer::handle_*: the envelope published for a handler result
AdminEnvelope(action, username, r) ==
    CASE ~r.ok /\ action = "add_user" ->
            GenericResponse(FALSE, <<"Unable to add user: ", r.text>>, None)
      [] ~r.ok /\ action = "remove_user" ->
            GenericResponse(FALSE, <<"Unable to remove user: ", r.text>>, None)
      [] ~r.ok /\ action = "reset_password" ->
            GenericResponse(FALSE, <<"Unable to reset password for user: ", r.text>>, None)
      [] ~r.ok /\ action = "add_groups" ->
            GenericResponse(FALSE, <<"Unable to add groups for user: ", r.text>>, None)
      [] ~r.ok /\ action = "remove_groups" ->
            GenericResponse(FALSE, <<"Unable to delete groups for user: ", r.text>>, None)
      [] ~r.ok /\ action = "get_user" ->
            GenericResponse(FALSE, <<"Unable to get user: ", r.text>>, None)
      [] ~r.ok /\ action = "list_users" ->
            GenericResponse(FALSE, <<"Unable to list users: ", r.text>>, None)
      [] action = "add_user" ->
            GenericResponse(TRUE, <<"User ", username, " added">>, None)
      [] action = "remove_user" ->
            GenericResponse(TRUE, <<"User ", username, " deleted">>, None)
      [] action = "reset_password" ->
            GenericResponse(TRUE, <<"Password reset for user ", username>>, Some(r.val))
      [] action = "add_groups" ->
            GenericResponse(TRUE, <<"Updated groups for user ", username>>, Some(r.val))
      [] action = "get_user" ->
            GenericResponse(TRUE, <<>>, Some(r.val))
      [] action = "list_users" ->
            GenericResponse(TRUE, <<>>, Some(r.val))
      [] OTHER ->
            GenericResponse(TRUE, <<"Deleted groups from user ", username>>, Some(r.val))

NoEnvelope == GenericResponse(FALSE, <<>>, None)

\* the envelopes the front ends answer a handler result with: the bus server
\* of the action (user or admin) and, for the user actions, the socket server
Answer(action, username, r) ==
    CASE action = "verify" ->
            [nats |-> NatsHandleVerify(r), socket |-> SocketHandleVerify(r)]
      [] action = "change_password" ->
            [nats |-> HandleChangePassword(r), socket |-> HandleChangePassword(r)]
      [] action = "delete_groups" ->
            [nats |-> NoEnvelope, socket |-> NoEnvelope]
      [] OTHER ->
            [nats |-> AdminEnvelope(action, username, r), socket |-> NoEnvelope]

\* NatsClient: what the caller of the client method gets for the envelope
NatsClientResult(action, env) ==
    IF action \in {"verify", "get_user", "reset_password", "add_groups", "remove_groups"}
    THEN into_result_required(env)
    ELSE into_result_empty(env)

\* ------------------------------------------------------------------- tasks
NoUser == UserInfo(hash_password(<<>>, 0), NoPhase, {})

\* seen is the record get_user returned, at the clock and base the bucket's
\* sequence number at that read (base is kept for the properties, no step
\* reads it)
IdleTask ==
    [pc |-> "idle", action |-> "", op |-> "", rep |-> 1, username |-> "",
     password |-> <<>>, new_password |-> <<>>, groups |-> {}, force |-> FALSE,
     seen |-> None, at |-> -1, base |-> 0, info |-> NoUser, revision |-> 0, ret |-> "",
     allowed |-> FALSE, resp |-> <<>>, res |-> Ok(<<>>), from |-> ""]

Request(action, u, p, np, g, f) ==
    [action |-> action, username |-> u, password |-> p, new_password |-> np,
     groups |-> g, force |-> f]

\* the calls a client or an administrator can make
Requests ==
    {Request("add_user", u, <<"pw", 1>>, <<>>, {1}, f) :
        <<u, f>> \in Users \X BOOLEAN}
    \cup {Request(a, u, <<>>, <<>>, {}, FALSE) :
        <<a, u>> \in {"remove_user", "reset_password", "get_user"} \X Users}
    \cup {Request(a, u, <<>>, <<>>, {2}, FALSE) :
        <<a, u>> \in {"add_groups", "remove_groups", "delete_groups"} \X Users}
    \cup {Request("verify", u, p, <<>>, {}, FALSE) :
        <<u, p>> \in Users \X (Passwords \cup issued)}
    \cup {Request("change_password", u, p, <<"pw", 2>>, {}, FALSE) :
        <<u, p>> \in Users \X (Passwords \cup issued)}

\* the calls that reach distinct handler code: one action per handler
Calls == {q \in Requests : q.action # "remove_groups"}

\* the handler a request ends up in: the user servers and a direct call name
\* it, the admin server dispatches on the action
Handler(action) ==
    IF action \in {"verify", "change_password", "delete_groups"}
    THEN action
    ELSE AdminRoute(action)

FirstPc(op) ==
    CASE op = "add" -> "exists_cache"
      [] op = "delete" -> "purge"
      [] OTHER -> "get_user"

\* the bucket's record of u, decoded, and replica r's cached record of u
Stored(b, u) == IF b[u].operation = "Put" THEN Some(Decode(b[u].value)) ELSE None

\* the call of task t returns r: the front ends answer, the task is free again
Done(t, k, r, b, c, log) ==
    LET env == Answer(k.action, k.username, r)
    IN /\ hist' = IF ~log THEN hist ELSE Append(hist,
              [action |-> k.action, op |-> k.op, username |-> k.username,
               password |-> k.password, new_password |-> k.new_password,
               groups |-> k.groups, force |-> k.force,
               seen |-> k.seen, at |-> k.at, res |-> r,
               nats |-> env.nats, socket |-> env.socket,
               client |-> NatsClientResult(k.action, env.nats),
               stored |-> Stored(b, k.username),
               cached |-> c[k.rep][k.username]])
       /\ task' = [task EXCEPT ![t] = [IdleTask EXCEPT !.action = k.action,
                                          !.op = k.op, !.username = k.username,
                                          !.res = r, !.from = k.pc]]
       /\ issued' = IF k.op = "reset_password" /\ r.ok
                    THEN issued \cup {r.val.temp_password}
                    ELSE issued

Goto(t, k) == task' = [task EXCEPT ![t] = k] /\ issued' = issued

\* no call in flight and every change-feed entry handled
Quiescent ==
    /\ \A t \in Tasks : task[t].pc = "idle"
    /\ \A r \in Replicas : feed[r] = <<>>

\* a request arrives at replica r and its handler is entered; the replicas
\* are interchangeable until the first call, which is taken to reach replica 1
Start(t, max, menu) ==
    /\ task[t].pc = "idle"
    /\ \A t2 \in Tasks : t2 < t => task[t2].pc # "idle"
    /\ ops < max
    /\ \E q \in menu, r \in Replicas :
          /\ ops = 0 => r = 1
          /\ Goto(t, [IdleTask EXCEPT
                     !.pc = FirstPc(Handler(q.action)),
                     !.action = q.action, !.op = Handler(q.action), !.rep = r,
                     !.username = q.username, !.password = q.password,
                     !.new_password = q.new_password, !.groups = q.groups,
                     !.force = q.force])
    /\ ops' = ops + 1
    /\ UNCHANGED <<bucket, seq, feed, cache, now, ticks, entropy, faults, hist>>

\* mutant: only verify runs enforce_login_state as a password change
is_password_change_verify_only(op) ==
    CASE op = "verify" -> TRUE
      [] OTHER -> FALSE

\* the mode Handlers::verify and Handlers::change_password run
\* enforce_login_state in
is_password_change(op) ==
    CASE op = "verify" -> TRUE
      [] OTHER -> TRUE

\* mutant: the reset phase is not cleared with the new hash
ChangedUser_keeps_phase(user, new_password, salt) ==
    [user EXCEPT !.hashed_password = hash_password(new_password, salt)]

\* Handlers::change_password: the record written once the old password matched
ChangedUser(user, new_password, salt) ==
    [user EXCEPT !.hashed_password = hash_password(new_password, salt),
                 !.password_reset = NoPhase]

\* mutant: change_password does not compare the old password
AfterEnforce_unchecked(t, k, user, b, c, log) ==
    IF k.op = "verify"
    THEN /\ Done(t, k, VerifyOutcome(user, k.password), b, c, log)
         /\ entropy' = entropy
    ELSE /\ Goto(t, [k EXCEPT !.pc = "put_entry", !.ret = "final", !.resp = <<>>,
                        !.info = ChangedUser(user, k.new_password, entropy + 1)])
         /\ entropy' = entropy + 1
         /\ hist' = hist

\* the rest of verify / change_password once enforce_login_state returned
\* user: runs to the end of the call or to the next put_user
AfterEnforce(t, k, user, b, c, log) ==
    IF k.op = "verify"
    THEN /\ Done(t, k, VerifyOutcome(user, k.password), b, c, log)
         /\ entropy' = entropy
    ELSE IF ~verify_password(user, k.password)
    THEN /\ Done(t, k, InvalidCredentials, b, c, log)
         /\ entropy' = entropy
    ELSE /\ Goto(t, [k EXCEPT !.pc = "put_entry", !.ret = "final", !.resp = <<>>,
                        !.info = ChangedUser(user, k.new_password, entropy + 1)])
         /\ entropy' = entropy + 1
         /\ hist' = hist

\* Handlers::add, CredStore::exists: the cache lookup
ExistsCache(t, log) ==
    LET k == task[t] IN
    /\ k.pc = "exists_cache"
    /\ IF cache[k.rep][k.username].some
       THEN Done(t, k, UsernameTaken, bucket, cache, log)
       ELSE Goto(t, [k EXCEPT !.pc = "exists_store"]) /\ hist' = hist
    /\ UNCHANGED <<bucket, seq, feed, cache, now, ticks, entropy, faults, ops>>

\* CredStore::exists: the bucket lookup after a cache miss; then Handlers::add
\* builds the record up to its put_user
ExistsStore(t, log) ==
    LET k == task[t] IN
    /\ k.pc = "exists_store"
    /\ \E success \in Outcomes :
          IF ~success
          THEN /\ Done(t, k, SystemError("Unable to get key"), bucket, cache, log)
               /\ faults' = faults - 1
               /\ entropy' = entropy
          ELSE IF StoreGet(k.username).some
          THEN /\ Done(t, k, UsernameTaken, bucket, cache, log)
               /\ UNCHANGED <<faults, entropy>>
          ELSE /\ Goto(t, [k EXCEPT !.pc = "put_entry", !.ret = "final", !.at = now,
                              !.info = UserInfo(
                                  hash_password(k.password, entropy + 1),
                                  IF k.force
                                  THEN Reset(get_expiry_duration(DEFAULT_RESET_EXPIRY))
                                  ELSE NoPhase,
                                  k.groups)])
               /\ entropy' = entropy + 1
               /\ UNCHANGED <<faults, hist>>
    /\ UNCHANGED <<bucket, seq, feed, cache, now, ticks, ops>>

\* mutant: delete_groups answers the reduced set but stores the record as read
GetUser_keeps_groups(t, log) ==
    LET k == task[t]
        c == cache[k.rep][k.username]
        user == c.val
        k1 == [k EXCEPT !.seen = c, !.at = now, !.base = seq]
    IN
    /\ k.pc = "get_user"
    /\ IF ~c.some
       THEN Done(t, k1, UsernameDoesNotExist, bucket, cache, log) /\ entropy' = entropy
       ELSE CASE k.op \in {"verify", "change_password"} ->
                   LET e == enforce_login_state(user, is_password_change(k.op)) IN
                   IF e.put
                   THEN /\ Goto(t, [k1 EXCEPT !.pc = "put_entry", !.ret = "enforce",
                                       !.info = e.user, !.allowed = e.allowed])
                        /\ UNCHANGED <<hist, entropy>>
                   ELSE IF ~e.allowed
                   THEN Done(t, k1, PasswordResetExpired, bucket, cache, log)
                        /\ entropy' = entropy
                   ELSE AfterEnforce(t, k1, e.user, bucket, cache, log)
              [] k.op = "reset_password" ->
                   LET new_password == Token(entropy + 1)
                       expiry == get_expiry_duration(DEFAULT_RESET_EXPIRY)
                   IN /\ Goto(t, [k1 EXCEPT !.pc = "put_entry", !.ret = "final",
                                    !.info = [user EXCEPT
                                        !.hashed_password =
                                            hash_password(new_password, entropy + 2),
                                        !.password_reset = Reset(expiry)],
                                    !.resp = [temp_password |-> new_password,
                                              expires_at |-> expiry]])
                      /\ entropy' = entropy + 2
                      /\ hist' = hist
              [] k.op = "add_groups" ->
                   /\ Goto(t, [k1 EXCEPT !.pc = "put_entry", !.ret = "final",
                                 !.info = [user EXCEPT !.groups = @ \cup k.groups],
                                 !.resp = user.groups \cup k.groups])
                   /\ UNCHANGED <<hist, entropy>>
              [] k.op = "get" ->
                   /\ Done(t, k1, Ok([username |-> k.username, groups |-> user.groups,
                                      password_change_phase |-> user.password_reset]),
                           bucket, cache, log)
                   /\ entropy' = entropy
              [] OTHER ->
                   /\ Goto(t, [k1 EXCEPT !.pc = "put_entry", !.ret = "final",
                                 !.info = user,
                                 !.resp = user.groups \ k.groups])
                   /\ UNCHANGED <<hist, entropy>>
    /\ UNCHANGED <<bucket, seq, feed, cache, now, ticks, faults, ops>>

\* CredStore::get_user at the head of verify, change_password, reset_password,
\* add_groups, delete_groups and get, and the handler's code up to its first
\* put_user
GetUser(t, log) ==
    LET k == task[t]
        c == cache[k.rep][k.username]
        user == c.val
        k1 == [k EXCEPT !.seen = c, !.at = now, !.base = seq]
    IN
    /\ k.pc = "get_user"
    /\ IF ~c.some
       THEN Done(t, k1, UsernameDoesNotExist, bucket, cache, log) /\ entropy' = entropy
       ELSE CASE k.op \in {"verify", "change_password"} ->
                   LET e == enforce_login_state(user, is_password_change(k.op)) IN
                   IF e.put
                   THEN /\ Goto(t, [k1 EXCEPT !.pc = "put_entry", !.ret = "enforce",
                                       !.info = e.user, !.allowed = e.allowed])
                        /\ UNCHANGED <<hist, entropy>>
                   ELSE IF ~e.allowed
                   THEN Done(t, k1, PasswordResetExpired, bucket, cache, log)
                        /\ entropy' = entropy
                   ELSE AfterEnforce(t, k1, e.user, bucket, cache, log)
              [] k.op = "reset_password" ->
                   LET new_password == Token(entropy + 1)
                       expiry == get_expiry_duration(DEFAULT_RESET_EXPIRY)
                   IN /\ Goto(t, [k1 EXCEPT !.pc = "put_entry", !.ret = "final",
                                    !.info = [user EXCEPT
                                        !.hashed_password =
                                            hash_password(new_password, entropy + 2),
                                        !.password_reset = Reset(expiry)],
                                    !.resp = [temp_password |-> new_password,
                                              expires_at |-> expiry]])
                      /\ entropy' = entropy + 2
                      /\ hist' = hist
              [] k.op = "add_groups" ->
                   /\ Goto(t, [k1 EXCEPT !.pc = "put_entry", !.ret = "final",
                                 !.info = [user EXCEPT !.groups = @ \cup k.groups],
                                 !.resp = user.groups \cup k.groups])
                   /\ UNCHANGED <<hist, entropy>>
              [] k.op = "get" ->
                   /\ Done(t, k1, Ok([username |-> k.username, groups |-> user.groups,
                                      password_change_phase |-> user.password_reset]),
                           bucket, cache, log)
                   /\ entropy' = entropy
              [] OTHER ->
                   /\ Goto(t, [k1 EXCEPT !.pc = "put_entry", !.ret = "final",
                                 !.info = [user EXCEPT !.groups = @ \ k.groups],
                                 !.resp = user.groups \ k.groups])
                   /\ UNCHANGED <<hist, entropy>>
    /\ UNCHANGED <<bucket, seq, feed, cache, now, ticks, faults, ops>>

\* mutant: the record is put in the cache before the bucket is written
PutEntry_eager(t, log) ==
    LET k == task[t] IN
    /\ k.pc = "put_entry"
    /\ cache' = [cache EXCEPT ![k.rep][k.username] = Some(k.info)]
    /\ \E success \in Outcomes :
          IF ~success
          THEN /\ Done(t, k, SystemError("Unable to fetch current revision"), bucket, cache, log)
               /\ faults' = faults - 1
          ELSE /\ Goto(t, [k EXCEPT !.pc = "put_update",
                              !.revision = IF StoreEntry(k.username).some
                                           THEN StoreEntry(k.username).val.revision
                                           ELSE 0])
               /\ UNCHANGED <<faults, hist>>
    /\ UNCHANGED <<bucket, seq, feed, now, ticks, entropy, ops>>

\* CredStore::put_user: fetch the current revision of the key
PutEntry(t, log) ==
    LET k == task[t] IN
    /\ k.pc = "put_entry"
    /\ \E success \in Outcomes :
          IF ~success
          THEN /\ Done(t, k, SystemError("Unable to fetch current revision"), bucket, cache, log)
               /\ faults' = faults - 1
          ELSE /\ Goto(t, [k EXCEPT !.pc = "put_update",
                              !.revision = IF StoreEntry(k.username).some
                                           THEN StoreEntry(k.username).val.revision
                                           ELSE 0])
               /\ UNCHANGED <<faults, hist>>
    /\ UNCHANGED <<bucket, seq, feed, cache, now, ticks, entropy, ops>>

\* mutant: the update is a plain put that ignores the fetched revision
PutUpdate_blind(t, log) ==
    LET k == task[t]
        e == [key |-> k.username, operation |-> "Put", revision |-> seq + 1,
              value |-> Encode(k.info)]
    IN
    /\ k.pc = "put_update"
    /\ bucket' = [bucket EXCEPT ![k.username] =
                     [operation |-> "Put", revision |-> seq + 1,
                      value |-> Encode(k.info)]]
    /\ seq' = seq + 1
    /\ feed' = Publish(feed, e)
    /\ Goto(t, [k EXCEPT !.pc = "put_cache"])
    /\ UNCHANGED <<cache, now, ticks, entropy, faults, ops, hist>>

\* CredStore::put_user: the compare-and-swap update at the fetched revision
PutUpdate(t, log) ==
    LET k == task[t]
        e == [key |-> k.username, operation |-> "Put", revision |-> seq + 1,
              value |-> Encode(k.info)]
    IN
    /\ k.pc = "put_update"
    /\ \E success \in Outcomes :
          IF ~success
          THEN /\ Done(t, k, SystemError("Unable to update store"), bucket, cache, log)
               /\ faults' = faults - 1
               /\ UNCHANGED <<bucket, seq, feed>>
          ELSE IF bucket[k.username].revision # k.revision
          THEN /\ Done(t, k, SystemError("Unable to update store"), bucket, cache, log)
               /\ UNCHANGED <<bucket, seq, feed, faults>>
          ELSE /\ bucket' = [bucket EXCEPT ![k.username] =
                                [operation |-> "Put", revision |-> seq + 1,
                                 value |-> Encode(k.info)]]
               /\ seq' = seq + 1
               /\ feed' = Publish(feed, e)
               /\ Goto(t, [k EXCEPT !.pc = "put_cache"])
               /\ UNCHANGED <<faults, hist>>
    /\ UNCHANGED <<cache, now, ticks, entropy, ops>>

\* mutant: the call goes on after enforce_login_state stored a denial
PutCache_proceeds(t, log) ==
    LET k == task[t]
        c == [cache EXCEPT ![k.rep][k.username] = Some(k.info)]
    IN
    /\ k.pc = "put_cache"
    /\ cache' = c
    /\ IF k.ret = "final"
       THEN Done(t, k, Ok(k.resp), bucket, c, log) /\ entropy' = entropy
       ELSE AfterEnforce(t, k, k.info, bucket, c, log)
    /\ UNCHANGED <<bucket, seq, feed, now, ticks, faults, ops>>

\* CredStore::put_user: the cache insert after the acknowledged update, and
\* the caller's code up to the end of the call or its next put_user
PutCache(t, log) ==
    LET k == task[t]
        c == [cache EXCEPT ![k.rep][k.username] = Some(k.info)]
    IN
    /\ k.pc = "put_cache"
    /\ cache' = c
    /\ IF k.ret = "final"
       THEN Done(t, k, Ok(k.resp), bucket, c, log) /\ entropy' = entropy
       ELSE IF ~k.allowed
       THEN Done(t, k, PasswordResetExpired, bucket, c, log) /\ entropy' = entropy
       ELSE AfterEnforce(t, k, k.info, bucket, c, log)
    /\ UNCHANGED <<bucket, seq, feed, now, ticks, faults, ops>>

\* Handlers::delete, CredStore::delete_user: purge the key from the bucket
Purge(t, log) ==
    LET k == task[t]
        e == [key |-> k.username, operation |-> "Purge", revision |-> seq + 1,
              value |-> <<>>]
    IN
    /\ k.pc = "purge"
    /\ \E success \in Outcomes :
          IF ~success
          THEN /\ Done(t, k, SystemError("Unable to delete user from store"), bucket, cache, log)
               /\ faults' = faults - 1
               /\ UNCHANGED <<bucket, seq, feed>>
          ELSE /\ bucket' = [bucket EXCEPT ![k.username] =
                                [operation |-> "Purge", revision |-> seq + 1,
                                 value |-> <<>>]]
               /\ seq' = seq + 1
               /\ feed' = Publish(feed, e)
               /\ Goto(t, [k EXCEPT !.pc = "del_cache"])
               /\ UNCHANGED <<faults, hist>>
    /\ UNCHANGED <<cache, now, ticks, entropy, ops>>

\* mutant: delete_user leaves the cache to the watcher
DelCache_kept(t, log) ==
    LET k == task[t] IN
    /\ k.pc = "del_cache"
    /\ cache' = cache
    /\ Done(t, k, Ok(<<>>), bucket, cache, log)
    /\ UNCHANGED <<bucket, seq, feed, now, ticks, entropy, faults, ops>>

\* CredStore::delete_user: remove the user from the cache
DelCache(t, log) ==
    LET k == task[t]
        c == [cache EXCEPT ![k.rep][k.username] = None]
    IN
    /\ k.pc = "del_cache"
    /\ cache' = c
    /\ Done(t, k, Ok(<<>>), bucket, c, log)
    /\ UNCHANGED <<bucket, seq, feed, now, ticks, entropy, faults, ops>>

\* mutant: the watcher drops the entry without applying it
HandleEntry_dropped(r) ==
    /\ feed[r] # <<>>
    /\ feed' = [feed EXCEPT ![r] = Tail(@)]
    /\ UNCHANGED <<bucket, seq, cache, now, ticks, entropy, faults, task, issued, ops, hist>>

\* the watcher task of replica r takes the next change-feed entry
HandleEntry(r) ==
    /\ feed[r] # <<>>
    /\ LET entry == Head(feed[r]) IN
       cache' = [cache EXCEPT ![r][entry.key] =
                    IF entry.operation = "Put" THEN Some(Decode(entry.value)) ELSE None]
    /\ feed' = [feed EXCEPT ![r] = Tail(@)]
    /\ UNCHANGED <<bucket, seq, now, ticks, entropy, faults, task, issued, ops, hist>>

\* ---------------------------------------------------------- CredStore::new
\* a CredStore whose construction returned, and one not constructed yet
Running == [pc |-> "running", began |-> -1, keys |-> {}, data |-> [u \in Users |-> NoEntry]]
Down == [Running EXCEPT !.pc = "down"]

\* CredStore::new: the spawned task opens the watcher on all keys; the watcher
\* delivers the entries written from now on
WatchAll(r) ==
    /\ boot[r].pc = "down"
    /\ boot' = [boot EXCEPT ![r] = [@ EXCEPT !.pc = "keys", !.began = seq]]
    /\ feed' = [feed EXCEPT ![r] = <<>>]
    /\ UNCHANGED <<bucket, seq, cache, now, ticks, entropy, faults, task, issued, ops, hist>>

\* mutant: the bucket is taken to hold no keys
FetchKeys_none(r) ==
    /\ boot[r].pc = "keys"
    /\ boot' = [boot EXCEPT ![r] = [@ EXCEPT !.pc = "entries", !.keys = {}]]
    /\ UNCHANGED <<bucket, seq, feed, cache, now, ticks, entropy, faults, task, issued, ops, hist>>

\* initial_data_fetch: Store::keys lists the keys whose latest entry is no
\* tombstone
FetchKeys(r) ==
    /\ boot[r].pc = "keys"
    /\ boot' = [boot EXCEPT ![r] = [@ EXCEPT !.pc = "entries",
                    !.keys = {u \in Users : bucket[u].operation = "Put"}]]
    /\ UNCHANGED <<bucket, seq, feed, cache, now, ticks, entropy, faults, task, issued, ops, hist>>

\* initial_data_fetch: Store::entry reads the latest entry of one listed key
FetchEntry(r) ==
    /\ boot[r].pc = "entries"
    /\ \E u \in boot[r].keys :
          boot' = [boot EXCEPT ![r] = [@ EXCEPT !.keys = @ \ {u}, !.data[u] = bucket[u]]]
    /\ UNCHANGED <<bucket, seq, feed, cache, now, ticks, entropy, faults, task, issued, ops, hist>>

\* mutant: the watcher is opened once the snapshot is in the cache
Install_then_watch(r) ==
    /\ boot[r].pc = "entries"
    /\ boot[r].keys = {}
    /\ cache' = [cache EXCEPT ![r] = [u \in Users |-> Stored(boot[r].data, u)]]
    /\ boot' = [boot EXCEPT ![r] = [@ EXCEPT !.pc = "running"]]
    /\ feed' = [feed EXCEPT ![r] = <<>>]
    /\ UNCHANGED <<bucket, seq, now, ticks, entropy, faults, task, issued, ops, hist>>

\* CredStore::new: the entries that are puts, decoded, replace the cache; the
\* task signals completion, new returns, and the watcher loop starts
Install(r) ==
    /\ boot[r].pc = "entries"
    /\ boot[r].keys = {}
    /\ cache' = [cache EXCEPT ![r] = [u \in Users |-> Stored(boot[r].data, u)]]
    /\ boot' = [boot EXCEPT ![r] = [@ EXCEPT !.pc = "running"]]
    /\ UNCHANGED <<bucket, seq, feed, now, ticks, entropy, faults, task, issued, ops, hist>>

\* the wall clock advances
Tick ==
    /\ ticks < MaxTicks
    /\ ticks' = ticks + 1
    /\ now' = now + TickStep
    /\ UNCHANGED <<bucket, seq, feed, cache, entropy, faults, task, issued, ops, hist>>

\* --------------------------------------------------------------- socket.rs
\* SocketHandler::handle as UserSocket::run spawns it for an accepted
\* connection: about to read the identifier of the first request
Accepted == [pc |-> "ident", method |-> <<>>, body |-> <<>>, err |-> <<>>]

\* the tasks that share one SocketClient
Callers == 1..NumCallers

\* a task that has not called the client
Outside == [pc |-> "out", req |-> 0, res |-> Err("none", "no call has returned")]

\* the peer that has connected and written nothing; SocketClient::new: the
\* connection behind the mutex, no task inside a call
Connected ==
    [pc |-> "idle", open |-> TRUE, sent |-> <<>>, data |-> <<>>,
     res |-> Err("none", "no call has returned"),
     calls |-> [c \in Callers |-> Outside]]

\* lib.rs: the framing constants, as bytes
REQUEST_IDENTIFIER == <<82, 69, 81, 10>>
RESPONSE_IDENTIFIER == <<82, 69, 83, 10>>
TERMINATOR == <<10, 69, 78, 68, 10>>

\* socket.rs: const MISBEHAVING_LIMIT
MISBEHAVING_LIMIT == 2048

\* the delimiters of read_until: b'\n' after the method, b'\r' after the body
LF == 10
CR == 13

\* the requests a peer puts in a body
SockRequests ==
    <<[username |-> "foo", password |-> <<"pw", 1>>],
      [username |-> "foo", password |-> <<"pw", 2>>]>>

\* serde_json::to_writer: a JSON object, its content written as one token
\* between the braces; no JSON text contains a raw LF or CR byte
Json(tok) == <<123, tok, 125>>

\* the JSON token of the i-th request
ReqToken(i) == 1000 + i

\* serde_json::from_slice::<VerificationRequest> of a body
from_slice_request(body) ==
    IF /\ Len(body) = 3
       /\ body[1] = 123
       /\ body[3] = 125
       /\ body[2] - 1000 \in 1..Len(SockRequests)
    THEN Some(SockRequests[body[2] - 1000])
    ELSE None

\* Handlers::verify for a user whose reset phase needs no write of the record
SockVerify(req) ==
    LET c == cache[1][req.username] IN
    IF ~c.some THEN UsernameDoesNotExist
    ELSE LET e == enforce_login_state(c.val, is_password_change("verify")) IN
         IF ~e.allowed THEN PasswordResetExpired
         ELSE VerifyOutcome(e.user, req.password)

\* SocketHandler::send_error: the envelope of an error message
ErrorEnvelope(message) == GenericResponse(FALSE, message, None)

\* the messages of the errors SocketHandler::handle answers itself
SockErrors ==
    << <<"Invalid request identifier">>,
       <<"Timed out reading method">>,
       <<"Method does not end in newline">>,
       <<"Error parsing method as string">>,
       <<"Timed out reading body">>,
       <<"Body does not end with carriage return">>,
       <<"Timed out reading terminator">>,
       <<"Invalid terminator">>,
       <<"Unknown method">>,
       <<"Error parsing verification request">>,
       <<"Error parsing password change request">> >>

\* every envelope the socket server can write; the JSON token of an envelope
\* is its place in this table
SockEnvelopes ==
    [i \in 1..Len(SockRequests) |-> SocketHandleVerify(SockVerify(SockRequests[i]))]
    \o [i \in 1..Len(SockErrors) |-> ErrorEnvelope(SockErrors[i])]

EnvToken(env) ==
    2000 + (CHOOSE i \in 1..Len(SockEnvelopes) : SockEnvelopes[i] = env)

\* SocketHandler::send_response / send_error: the frame written for an envelope
ResponseFrame(env) == RESPONSE_IDENTIFIER \o Json(EnvToken(env)) \o TERMINATOR

\* SocketClient::send_request: the frame written for a method and a body
Frame(method, body) ==
    REQUEST_IDENTIFIER \o method \o <<LF>> \o body \o <<CR>> \o TERMINATOR

\* method names as bytes: "verify", "change_password", an unknown "x", and
\* bytes that are no UTF-8 text
VerifyMethod == <<118, 101, 114, 105, 102, 121>>
ChangePasswordMethod ==
    <<99, 104, 97, 110, 103, 101, 95, 112, 97, 115, 115, 119, 111, 114, 100>>
UnknownMethod == <<120>>
NonUtf8Method == <<99, 111, 255>>

\* n bytes of garbage
Pad(n) == [i \in 1..n |-> 12]

\* what a peer writes in one go: well-formed frames (kinds verify, unknown)
\* and the malformed requests of test_protocol_bad_requests, the bad
\* identifier followed by pad more bytes of garbage, and frames that stop
\* inside the method line, the body or the terminator
Bytes(piece) ==
    LET body == Json(ReqToken(piece.req)) IN
    CASE piece.kind = "verify" -> Frame(VerifyMethod, body)
      [] piece.kind = "unknown" -> Frame(UnknownMethod, body)
      [] piece.kind = "bad_ident" -> <<103, 97, 114, 98>> \o Pad(piece.pad)
      [] piece.kind = "after_ident" -> REQUEST_IDENTIFIER
      [] piece.kind = "after_method" -> REQUEST_IDENTIFIER \o VerifyMethod \o <<LF>>
      [] piece.kind = "after_body" ->
            REQUEST_IDENTIFIER \o VerifyMethod \o <<LF>> \o body \o <<CR>>
      [] piece.kind = "bad_term" ->
            REQUEST_IDENTIFIER \o VerifyMethod \o <<LF>> \o body \o <<CR>>
            \o <<103, 97, 114, 98, 97, 103, 101>>
      [] piece.kind = "part_method" -> REQUEST_IDENTIFIER \o <<118, 101>>
      [] piece.kind = "part_body" ->
            REQUEST_IDENTIFIER \o VerifyMethod \o <<LF>> \o <<123>>
      [] piece.kind = "part_term" ->
            REQUEST_IDENTIFIER \o VerifyMethod \o <<LF>> \o body \o <<CR>> \o <<10, 69>>
      [] OTHER -> Frame(NonUtf8Method, body)

Piece(kind, req, pad, via) == [kind |-> kind, req |-> req, pad |-> pad, via |-> via]

PadSizes == {3, MISBEHAVING_LIMIT - 1, MISBEHAVING_LIMIT, 3000}

SockPieces ==
    {Piece("verify", r, 0, "raw") : r \in 1..Len(SockRequests)}
    \cup {Piece("unknown", 1, 0, "raw")}
    \cup {Piece("bad_ident", 1, n, "raw") : n \in PadSizes}
    \cup {Piece(k, 1, 0, "raw") :
            k \in {"after_ident", "after_method", "after_body", "bad_term", "non_utf8",
                   "part_method", "part_body", "part_term"}}

WellFormed(piece) == piece.kind \in {"verify", "unknown"}

\* the bytes the server can read: its reader's buffer, then the socket
Avail == rbuf \o wire

\* place of the first byte b in the sequence q, 0 if there is none
IndexOf(q, b) ==
    IF \E i \in 1..Len(q) : q[i] = b
    THEN CHOOSE i \in 1..Len(q) : q[i] = b /\ \A j \in 1..(i - 1) : q[j] # b
    ELSE 0

\* mutant: what the reader holds beyond the bytes of the read is dropped
Pull_dropping(k) == rbuf' = <<>> /\ wire' = <<>>

\* a read through the BufReader took k bytes: from its buffer if that holds
\* them, else the socket is read into the buffer first
Pull(k) ==
    IF k <= Len(rbuf)
    THEN rbuf' = SubSeq(rbuf, k + 1, Len(rbuf)) /\ wire' = wire
    ELSE rbuf' = SubSeq(Avail, k + 1, Len(Avail)) /\ wire' = <<>>

\* a read gave up (timeout or end of stream): what it had read is gone
PullAll == rbuf' = <<>> /\ wire' = <<>>

BadRequest(message) == [srv EXCEPT !.pc = "drain", !.err = message]
ConnectionClosed == [srv EXCEPT !.pc = "closed_ok"]

\* parse_incoming: read_exact of the request identifier, with no timeout
ParseIdent ==
    /\ srv.pc = "ident"
    /\ IF Len(Avail) >= Len(REQUEST_IDENTIFIER)
       THEN /\ Pull(Len(REQUEST_IDENTIFIER))
            /\ srv' = IF SubSeq(Avail, 1, Len(REQUEST_IDENTIFIER)) = REQUEST_IDENTIFIER
                      THEN [srv EXCEPT !.pc = "method"]
                      ELSE BadRequest(<<"Invalid request identifier">>)
       ELSE /\ ~cli.open
            /\ PullAll
            /\ srv' = ConnectionClosed
    /\ UNCHANGED <<back, cli, storevars>>

\* parse_incoming: read_until(b'\n') of the method within 500 ms, then the
\* check of the method as UTF-8 text
ParseMethod ==
    LET i == IndexOf(Avail, LF)
        method == SubSeq(Avail, 1, i - 1)
    IN
    /\ srv.pc = "method"
    /\ IF i > 0
       THEN /\ Pull(i)
            /\ srv' = IF \A j \in 1..Len(method) : method[j] < 128
                      THEN [srv EXCEPT !.pc = "body", !.method = method]
                      ELSE BadRequest(<<"Error parsing method as string">>)
       ELSE /\ PullAll
            /\ srv' = IF cli.open THEN BadRequest(<<"Timed out reading method">>)
                      ELSE IF Avail = <<>> THEN ConnectionClosed
                      ELSE BadRequest(<<"Method does not end in newline">>)
    /\ UNCHANGED <<back, cli, storevars>>

\* mutant: the read of the body has no timeout
ParseBody_untimed ==
    LET i == IndexOf(Avail, CR) IN
    /\ srv.pc = "body"
    /\ IF i > 0
       THEN /\ Pull(i)
            /\ srv' = [srv EXCEPT !.pc = "term", !.body = SubSeq(Avail, 1, i - 1)]
       ELSE /\ ~cli.open
            /\ PullAll
            /\ srv' = IF Avail = <<>> THEN ConnectionClosed
                      ELSE BadRequest(<<"Body does not end with carriage return">>)
    /\ UNCHANGED <<back, cli, storevars>>

\* parse_incoming: read_until(b'\r') of the body within 500 ms
ParseBody ==
    LET i == IndexOf(Avail, CR) IN
    /\ srv.pc = "body"
    /\ IF i > 0
       THEN /\ Pull(i)
            /\ srv' = [srv EXCEPT !.pc = "term", !.body = SubSeq(Avail, 1, i - 1)]
       ELSE /\ PullAll
            /\ srv' = IF cli.open THEN BadRequest(<<"Timed out reading body">>)
                      ELSE IF Avail = <<>> THEN ConnectionClosed
                      ELSE BadRequest(<<"Body does not end with carriage return">>)
    /\ UNCHANGED <<back, cli, storevars>>

\* parse_incoming: read_exact of the terminator within 500 ms
ParseTerm ==
    /\ srv.pc = "term"
    /\ IF Len(Avail) >= Len(TERMINATOR)
       THEN /\ Pull(Len(TERMINATOR))
            /\ srv' = IF SubSeq(Avail, 1, Len(TERMINATOR)) = TERMINATOR
                      THEN [srv EXCEPT !.pc = "serve"]
                      ELSE BadRequest(<<"Invalid terminator">>)
       ELSE /\ PullAll
            /\ srv' = IF cli.open THEN BadRequest(<<"Timed out reading terminator">>)
                      ELSE ConnectionClosed
    /\ UNCHANGED <<back, cli, storevars>>

\* SocketHandler::handle: the envelope answered to a parsed request
Served(method, body) ==
    CASE method = VerifyMethod ->
            IF from_slice_request(body).some
            THEN SocketHandleVerify(SockVerify(from_slice_request(body).val))
            ELSE ErrorEnvelope(<<"Error parsing verification request">>)
      [] method = ChangePasswordMethod ->
            ErrorEnvelope(<<"Error parsing password change request">>)
      [] OTHER -> ErrorEnvelope(<<"Unknown method">>)

\* SocketHandler::handle: dispatch on the method, handler, response written
Serve ==
    /\ srv.pc = "serve"
    /\ back' = back \o ResponseFrame(Served(srv.method, srv.body))
    /\ srv' = Accepted
    /\ UNCHANGED <<wire, rbuf, cli, storevars>>

\* mutant: the drain takes the end of the stream for a peer that is silent
Drain_silent ==
    LET total_read == Len(rbuf)
        remaining == MISBEHAVING_LIMIT - total_read
        n == IF Len(wire) < remaining THEN Len(wire) ELSE remaining
    IN
    /\ srv.pc = "drain"
    /\ rbuf' = <<>>
    /\ IF total_read >= MISBEHAVING_LIMIT
       THEN /\ srv' = [srv EXCEPT !.pc = "closed_err"]
            /\ UNCHANGED <<wire, back>>
       ELSE IF n = remaining
       THEN /\ srv' = [srv EXCEPT !.pc = "closed_err"]
            /\ wire' = SubSeq(wire, n + 1, Len(wire))
            /\ back' = back
       ELSE /\ srv' = Accepted
            /\ wire' = <<>>
            /\ back' = back \o ResponseFrame(ErrorEnvelope(srv.err))
    /\ UNCHANGED <<cli, storevars>>

\* SocketHandler::handle after a BadRequest: consume_leftover empties the
\* reader's buffer and reads the socket once, for up to 300 ms, into a buffer
\* of the bytes remaining to the limit; then send_error answers the request
Drain ==
    LET total_read == Len(rbuf)
        remaining == MISBEHAVING_LIMIT - total_read
        n == IF Len(wire) < remaining THEN Len(wire) ELSE remaining
    IN
    /\ srv.pc = "drain"
    /\ rbuf' = <<>>
    /\ IF total_read >= MISBEHAVING_LIMIT
       THEN /\ srv' = [srv EXCEPT !.pc = "closed_err"]
            /\ UNCHANGED <<wire, back>>
       ELSE IF n = remaining
       THEN /\ srv' = [srv EXCEPT !.pc = "closed_err"]
            /\ wire' = SubSeq(wire, n + 1, Len(wire))
            /\ back' = back
       ELSE IF n = 0 /\ ~cli.open
       THEN /\ srv' = ConnectionClosed
            /\ UNCHANGED <<wire, back>>
       ELSE /\ srv' = Accepted
            /\ wire' = <<>>
            /\ back' = back \o ResponseFrame(ErrorEnvelope(srv.err))
    /\ UNCHANGED <<cli, storevars>>

\* the response frames written so far are as many as the requests written
AllAnswered == Len(back) >= Len(cli.sent) * Len(ResponseFrame(ErrorEnvelope(SockErrors[1])))

\* the peer may write: it is not inside a call of SocketClient, the
\* connection is up, and it has the response to each malformed request it
\* wrote (well-formed frames may be written back to back)
MayWrite(via) ==
    /\ cli.pc = "idle"
    /\ cli.open
    /\ srv.pc \notin {"closed_ok", "closed_err"}
    /\ Len(cli.sent) < SockMaxReqs
    /\ \A i \in 1..Len(cli.sent) : cli.sent[i].via = via
    /\ AllAnswered \/ \A i \in 1..Len(cli.sent) : WellFormed(cli.sent[i])

\* a peer writes a request, well-formed or not, with write_all
Write ==
    /\ MayWrite("raw")
    /\ \E piece \in SockPieces :
          /\ wire' = wire \o Bytes(piece)
          /\ cli' = [cli EXCEPT !.sent = Append(@, piece)]
    /\ UNCHANGED <<rbuf, back, srv, storevars>>

\* the peer shuts the connection down
Close ==
    /\ cli.pc = "idle"
    /\ cli.open
    /\ cli' = [cli EXCEPT !.open = FALSE]
    /\ UNCHANGED <<wire, rbuf, back, srv, storevars>>

\* SocketClient::verify: reconnect finds the connection usable, send_request
\* writes the frame and goes on to parse_response
ClientVerify ==
    /\ MayWrite("client")
    /\ \E r \in 1..Len(SockRequests) :
          /\ wire' = wire \o Frame(VerifyMethod, Json(ReqToken(r)))
          /\ cli' = [cli EXCEPT !.sent = Append(@, Piece("verify", r, 0, "client")),
                                !.pc = "res_ident", !.data = <<>>]
    /\ UNCHANGED <<rbuf, back, srv, storevars>>

\* the value of a JSON text the server wrote
JsonValue(data) ==
    IF /\ Len(data) = 3
       /\ data[1] = 123
       /\ data[3] = 125
       /\ data[2] - 2000 \in 1..Len(SockEnvelopes)
    THEN Some(SockEnvelopes[data[2] - 2000])
    ELSE None

\* serde_json::from_slice::<VerificationResponse>: the object must have the
\* fields of a VerificationResponse
from_slice_response(data) ==
    LET v == JsonValue(data) IN
    IF /\ v.some
       /\ {"valid", "message", "needs_password_reset", "groups"} \subseteq DOMAIN v.val
    THEN Ok(v.val)
    ELSE Err("serde", "missing field")

Returned(r) == [cli EXCEPT !.pc = "idle", !.data = <<>>, !.res = r]

\* SocketClient::send_request after the write: parse_response reads the
\* response identifier (read_exact), the data up to b'\r' (read_until) and
\* the terminator (read_exact); the data is then deserialized
ParseResponse ==
    LET eof == srv.pc \in {"closed_ok", "closed_err"}
        i == IndexOf(back, CR)
    IN
    /\ CASE cli.pc = "res_ident" ->
              IF Len(back) >= Len(RESPONSE_IDENTIFIER)
              THEN /\ back' = SubSeq(back, Len(RESPONSE_IDENTIFIER) + 1, Len(back))
                   /\ cli' = [cli EXCEPT !.pc = "res_data"]
              ELSE /\ eof
                   /\ back' = <<>>
                   /\ cli' = Returned(Err("io", "unexpected end of file"))
         [] cli.pc = "res_data" ->
              IF i > 0
              THEN /\ back' = SubSeq(back, i + 1, Len(back))
                   /\ cli' = [cli EXCEPT !.pc = "res_term", !.data = SubSeq(back, 1, i - 1)]
              ELSE /\ eof
                   /\ back' = <<>>
                   /\ cli' = Returned(IF back = <<>>
                                      THEN Err("anyhow", "Socket closed")
                                      ELSE Err("anyhow", "Got malformed response"))
         [] cli.pc = "res_term" ->
              IF Len(back) >= Len(TERMINATOR)
              THEN /\ back' = SubSeq(back, Len(TERMINATOR) + 1, Len(back))
                   /\ cli' = Returned(IF SubSeq(back, 1, Len(TERMINATOR)) = TERMINATOR
                                      THEN from_slice_response(cli.data)
                                      ELSE Err("anyhow", "Got malformed response"))
              ELSE /\ eof
                   /\ back' = <<>>
                   /\ cli' = Returned(Err("io", "unexpected end of file"))
         [] OTHER -> FALSE
    /\ UNCHANGED <<wire, rbuf, srv, storevars>>

\* the steps of the server's connection task
ServerStep == ParseIdent \/ ParseMethod \/ ParseBody \/ ParseTerm \/ Serve \/ Drain

\* ----------------------------------------------------------- specifications
\* The CredStores are constructed on a bucket that is empty or holds a user
\* added in an earlier run of the service (add_user with the first password,
\* no forced change); CredStore::new has loaded the bucket into each cache.
EarlierUser == UserInfo(hash_password(<<"pw", 1>>, 0), NoPhase, {1})

InitStore ==
    /\ \E held \in SUBSET Users :
          /\ bucket = [u \in Users |->
                          IF u \in held
                          THEN [operation |-> "Put", revision |-> 1,
                                value |-> Encode(EarlierUser)]
                          ELSE NoEntry]
          /\ seq = Cardinality(held)
          /\ cache = [r \in Replicas |-> [u \in Users |->
                          IF u \in held THEN Some(EarlierUser) ELSE None]]
    /\ feed = [r \in Replicas |-> <<>>]
    /\ now = 0
    /\ ticks = 0
    /\ entropy = 0
    /\ task = [t \in Tasks |-> IdleTask]
    /\ issued = {}
    /\ ops = 0
    /\ hist = <<>>
    /\ boot = [r \in Replicas |-> Running]
    /\ wire = <<>>
    /\ rbuf = <<>>
    /\ back = <<>>
    /\ srv = Accepted
    /\ cli = Connected

Step(t, log) ==
    \/ ExistsCache(t, log)
    \/ ExistsStore(t, log)
    \/ GetUser(t, log)
    \/ PutEntry(t, log)
    \/ PutUpdate(t, log)
    \/ PutCache(t, log)
    \/ Purge(t, log)
    \/ DelCache(t, log)

\* Spec: calls overlap freely on all replicas; the clock stands still
Init == InitStore /\ faults = 0

Next ==
    \/ \E t \in Tasks : Start(t, MaxOps, Calls) /\ UNCHANGED <<sockvars, boot>>
    \/ \E t \in Tasks : Step(t, FALSE) /\ UNCHANGED <<sockvars, boot>>
    \/ \E r \in Replicas : HandleEntry(r) /\ UNCHANGED <<sockvars, boot>>

Spec == Init /\ [][Next]_vars

\* SeqSpec: one caller that makes each call after the previous one returned
\* and the replicas caught up with the change feed; every completed call is
\* kept in hist
SeqInit == InitStore /\ faults = 0

SeqNext ==
    \/ \E t \in Tasks : Quiescent /\ Start(t, SeqMaxOps, Requests) /\ UNCHANGED <<sockvars, boot>>
    \/ \E t \in Tasks : Step(t, TRUE) /\ UNCHANGED <<sockvars, boot>>
    \/ \E r \in Replicas : HandleEntry(r) /\ UNCHANGED <<sockvars, boot>>
    \/ Tick /\ UNCHANGED <<sockvars, boot>>

SeqSpec == SeqInit /\ [][SeqNext]_vars

\* StoreSpec: calls overlap freely on all replicas, up to MaxFaults requests
\* to the bucket fail, and every watcher task keeps taking the entries of
\* its change feed (the loop of CredStore::new runs for the store's lifetime)
StoreInit == InitStore /\ faults \in 0..MaxFaults

\* the calls that write the bucket through put_user or delete_user alone
StoreCalls ==
    {q \in Calls : q.action \in {"add_user", "remove_user", "add_groups"} /\ ~q.force}

StoreNext ==
    \/ \E t \in Tasks : Start(t, StoreMaxOps, StoreCalls) /\ UNCHANGED <<sockvars, boot>>
    \/ \E t \in Tasks : Step(t, FALSE) /\ UNCHANGED <<sockvars, boot>>
    \/ \E r \in Replicas : HandleEntry(r) /\ UNCHANGED <<sockvars, boot>>

StoreSpec ==
    /\ StoreInit
    /\ [][StoreNext]_vars
    /\ \A r \in Replicas : WF_vars(HandleEntry(r) /\ UNCHANGED <<sockvars, boot>>)

\* SockSpec: one connection to the socket server of a store that holds the
\* user of an earlier run; the server's connection task and a call of
\* SocketClient keep running whenever they can take a step
SockInit == InitStore /\ faults = 0 /\ \A u \in Users : cache[1][u].some

SockNext ==
    \/ Write
    \/ Close
    \/ ClientVerify
    \/ ParseResponse
    \/ ParseIdent
    \/ ParseMethod
    \/ ParseBody
    \/ ParseTerm
    \/ Serve
    \/ Drain

SockSpec ==
    /\ SockInit
    /\ [][SockNext]_vars
    /\ WF_vars(ServerStep)
    /\ WF_vars(ParseResponse)

\* BootSpec: a CredStore is constructed on the bucket while the CredStores
\* already running serve calls that write it
Booting == NumReplicas

BootInit ==
    /\ \E held \in SUBSET Users :
          /\ bucket = [u \in Users |->
                          IF u \in held
                          THEN [operation |-> "Put", revision |-> 1,
                                value |-> Encode(EarlierUser)]
                          ELSE NoEntry]
          /\ seq = Cardinality(held)
          /\ cache = [r \in Replicas |-> [u \in Users |->
                          IF u \in held /\ r # Booting THEN Some(EarlierUser) ELSE None]]
    /\ feed = [r \in Replicas |-> <<>>]
    /\ now = 0
    /\ ticks = 0
    /\ entropy = 0
    /\ faults = 0
    /\ task = [t \in Tasks |-> IdleTask]
    /\ issued = {}
    /\ ops = 0
    /\ hist = <<>>
    /\ boot = [r \in Replicas |-> IF r = Booting THEN Down ELSE Running]
    /\ wire = <<>>
    /\ rbuf = <<>>
    /\ back = <<>>
    /\ srv = Accepted
    /\ cli = Connected

BootNext ==
    \/ \E t \in Tasks :
          /\ Start(t, BootMaxOps, StoreCalls)
          /\ task'[t].rep # Booting
          /\ UNCHANGED <<sockvars, boot>>
    \/ \E t \in Tasks : Step(t, FALSE) /\ UNCHANGED <<sockvars, boot>>
    \/ \E r \in Replicas :
          /\ boot[r].pc = "running"
          /\ HandleEntry(r)
          /\ UNCHANGED <<sockvars, boot>>
    \/ WatchAll(Booting) /\ UNCHANGED sockvars
    \/ FetchKeys(Booting) /\ UNCHANGED sockvars
    \/ FetchEntry(Booting) /\ UNCHANGED sockvars
    \/ Install(Booting) /\ UNCHANGED sockvars

BootSpec == BootInit /\ [][BootNext]_vars

\* RaceSpec: calls of a user whose password was reset overlap on all
\* replicas while the clock passes the expiry of the reset. The bucket holds
\* the user as an add_user with force_password_change at time 0 left it.
ForcedUser == UserInfo(hash_password(<<"pw", 1>>, 0), Reset(DEFAULT_RESET_EXPIRY), {1})

RaceInit ==
    /\ bucket = [u \in Users |->
                    [operation |-> "Put", revision |-> 1, value |-> Encode(ForcedUser)]]
    /\ seq = Cardinality(Users)
    /\ cache = [r \in Replicas |-> [u \in Users |-> Some(ForcedUser)]]
    /\ feed = [r \in Replicas |-> <<>>]
    /\ now = 0
    /\ ticks = 0
    /\ entropy = 0
    /\ faults = 0
    /\ task = [t \in Tasks |-> IdleTask]
    /\ issued = {}
    /\ ops = 0
    /\ hist = <<>>
    /\ boot = [r \in Replicas |-> Running]
    /\ wire = <<>>
    /\ rbuf = <<>>
    /\ back = <<>>
    /\ srv = Accepted
    /\ cli = Connected

RaceCalls ==
    {q \in Calls : q.action \in {"verify", "change_password", "reset_password"}}

RaceNext ==
    \/ \E t \in Tasks : Start(t, RaceMaxOps, RaceCalls) /\ UNCHANGED <<sockvars, boot>>
    \/ \E t \in Tasks : Step(t, FALSE) /\ UNCHANGED <<sockvars, boot>>
    \/ \E r \in Replicas : HandleEntry(r) /\ UNCHANGED <<sockvars, boot>>
    \/ Tick /\ UNCHANGED <<sockvars, boot>>

RaceSpec == RaceInit /\ [][RaceNext]_vars

\* EnvSpec: the envelope code on its own. A server answers a handler result
\* or an error of its own with an envelope, and a client decodes an envelope
\* it received; hist keeps each envelope with what the client helpers make
\* of it.
UserActions == {"verify", "change_password"}
AdminActions ==
    {"add_user", "get_user", "list_users", "remove_user", "reset_password",
     "add_groups", "remove_groups"}

\* the values a handler returns on success
Payloads(action) ==
    CASE action = "verify" ->
            {[valid |-> TRUE, message |-> "Successfully verified",
              needs_password_reset |-> n, groups |-> g] :
                <<n, g>> \in BOOLEAN \X (SUBSET Groups)}
      [] action = "get_user" ->
            {[username |-> u, groups |-> g, password_change_phase |-> ph] :
                <<u, g, ph>> \in Users \X (SUBSET Groups) \X {NoPhase, Locked}}
      [] action = "list_users" -> {<<>>} \cup {<<u>> : u \in Users}
      [] action = "reset_password" ->
            {[temp_password |-> Token(1), expires_at |-> DEFAULT_RESET_EXPIRY]}
      [] action \in {"add_groups", "remove_groups"} -> SUBSET Groups
      [] OTHER -> {<<>>}

\* error.rs: the errors a handler returns
HandleErrors ==
    {UsernameTaken, InvalidCredentials, PasswordResetExpired, UsernameDoesNotExist,
     SystemError("Unable to update store")}

\* the messages of the errors the bus servers answer themselves
NatsErrors ==
    << <<"invalid request, unable to deserialize body: ">>,
       <<"invalid api method ">>,
       <<"unable to serialize response: ">> >>

\* the messages of the envelopes a client is handed
Messages == {<<>>, <<"text">>}

Emitted(server, action, r, env) ==
    [server |-> server, action |-> action, res |-> r, env |-> env,
     required |-> into_result_required(env), empty |-> into_result_empty(env)]

\* one more envelope is kept in hist
Counted ==
    /\ ops < EnvMaxOps
    /\ ops' = ops + 1
    /\ UNCHANGED <<bucket, seq, feed, cache, now, ticks, entropy, faults, task, issued>>
    /\ UNCHANGED <<sockvars, boot>>

\* a bus server (user or admin) or the socket server answers a handler result
Emit ==
    /\ Counted
    /\ \E server \in {"nats", "socket"} :
       \E action \in IF server = "nats" THEN UserActions \cup AdminActions ELSE UserActions :
       \E u \in Users, ok \in BOOLEAN :
           LET answered(r) ==
                   hist' = Append(hist, Emitted(server, action, r,
                               IF server = "nats" THEN Answer(action, u, r).nats
                               ELSE Answer(action, u, r).socket))
           IN IF ok THEN \E v \in Payloads(action) : answered(Ok(v))
              ELSE \E e \in HandleErrors : answered(e)

\* a server answers a request it could not parse or dispatch: send_error
EmitError ==
    /\ Counted
    /\ \E server \in {"nats", "socket"} :
       \E i \in IF server = "nats" THEN DOMAIN NatsErrors ELSE DOMAIN SockErrors :
           hist' = Append(hist, Emitted(server, "none", SystemError(""),
                       IF server = "nats"
                       THEN GenericResponse(FALSE, NatsErrors[i], None)
                       ELSE ErrorEnvelope(SockErrors[i])))

\* a client decodes an envelope it received
DecodeEnvelope ==
    /\ Counted
    /\ \E ok \in BOOLEAN, m \in Messages, present \in BOOLEAN :
           hist' = Append(hist, Emitted("peer", "none", SystemError(""),
                       GenericResponse(ok, m, IF present THEN Some(<<"payload">>) ELSE None)))

EnvInit == SockInit

EnvNext ==
    \/ Emit
    \/ EmitError
    \/ DecodeEnvelope

EnvSpec == EnvInit /\ [][EnvNext]_vars

\* BusSpec: the run loops of the two bus servers. A message is delivered to
\* the server whose subscription "<prefix>.*" its subject matches; its last
\* token may name no action, its body may not deserialize, and it may carry
\* no reply subject.
BusTokens(server) ==
    (IF server = "user" THEN UserActions ELSE AdminActions) \cup {"bogus"}

\* the errors a handler returns to its server in BusSpec
BusErrors == {InvalidCredentials, PasswordResetExpired, UsernameDoesNotExist}

\* send_error: one error envelope, published if there is a reply subject
send_error(reply, message) ==
    IF reply THEN <<GenericResponse(FALSE, message, None)>> ELSE <<>>

\* send_response: the envelope, published if there is a reply subject
send_response(reply, env) == IF reply THEN <<env>> ELSE <<>>

\* mutant: the handler of the action goes on after deserialize_body failed
Dispatch_unchecked(server, token, reply, body_ok, u, r) ==
    IF token = "bogus"
    THEN [invoked |-> FALSE, run |-> "next",
          published |-> send_error(reply, <<"invalid api method ", token>>)]
    ELSE [invoked |-> TRUE, run |-> "next",
          published |->
             (IF ~body_ok /\ token # "list_users"
              THEN send_error(reply, NatsErrors[1]) ELSE <<>>)
             \o send_response(reply, Answer(token, u, r).nats)]

\* one turn of NatsUserServer::run or NatsAdminServer::run: whether the
\* Handlers method was called, the envelopes published, and where the loop
\* goes next
Dispatch(server, token, reply, body_ok, u, r) ==
    IF token = "bogus"
    THEN [invoked |-> FALSE, run |-> "next",
          published |-> send_error(reply, <<"invalid api method ", token>>)]
    ELSE IF ~body_ok /\ token # "list_users"
    THEN [invoked |-> FALSE, run |-> "next",
          published |-> send_error(reply, NatsErrors[1])]
    ELSE [invoked |-> TRUE, run |-> "next",
          published |-> send_response(reply, Answer(token, u, r).nats)]

\* what hist keeps of one turn of a server's loop
Turn(server, token, reply, body_ok, u, r) ==
    [server |-> server, token |-> token, reply |-> reply, body_ok |-> body_ok,
     res |-> r, out |-> Dispatch(server, token, reply, body_ok, u, r)]

\* the loop of this server has not ended
Looping(server) ==
    \A i \in DOMAIN hist : hist[i].server # server \/ hist[i].out.run = "next"

\* NatsUserServer::run takes the next message of its subscription
UserReceive ==
    /\ ops < BusMaxOps
    /\ Looping("user")
    /\ ops' = ops + 1
    /\ \E token \in BusTokens("user"), reply \in BOOLEAN, body_ok \in BOOLEAN :
       \E u \in Users, ok \in BOOLEAN :
           IF ok
           THEN hist' = Append(hist, Turn("user", token, reply, body_ok, u,
                                         Ok(CHOOSE v \in Payloads(token) : TRUE)))
           ELSE \E e \in BusErrors :
                   hist' = Append(hist, Turn("user", token, reply, body_ok, u, e))
    /\ UNCHANGED <<bucket, seq, feed, cache, now, ticks, entropy, faults, task, issued>>
    /\ UNCHANGED <<sockvars, boot>>

\* NatsAdminServer::run takes the next message of its subscription
AdminReceive ==
    /\ ops < BusMaxOps
    /\ Looping("admin")
    /\ ops' = ops + 1
    /\ \E token \in BusTokens("admin"), reply \in BOOLEAN, body_ok \in BOOLEAN :
       \E u \in Users, ok \in BOOLEAN :
           IF ok
           THEN hist' = Append(hist, Turn("admin", token, reply, body_ok, u,
                                         Ok(CHOOSE v \in Payloads(token) : TRUE)))
           ELSE \E e \in BusErrors :
                   hist' = Append(hist, Turn("admin", token, reply, body_ok, u, e))
    /\ UNCHANGED <<bucket, seq, feed, cache, now, ticks, entropy, faults, task, issued>>
    /\ UNCHANGED <<sockvars, boot>>

BusInit == SockInit

BusNext ==
    \/ UserReceive
    \/ AdminReceive

BusSpec == BusInit /\ [][BusNext]_vars

\* ------------------------------------------- the callers of one SocketClient
\* the task that holds the lock send_request took
Holder == {c \in Callers : cli.calls[c].pc = "locked"}

\* the connection the client holds has a server task at its other end
Usable == srv.pc \notin {"closed_ok", "closed_err"}

Finished(c, r) == [cli EXCEPT !.calls[c].pc = "done", !.calls[c].res = r]

\* UserClient::verify is called by task c
Call(c) ==
    /\ cli.calls[c].pc = "out"
    /\ \E r \in 1..Len(SockRequests) :
          cli' = [cli EXCEPT !.calls[c].pc = "reconnect", !.calls[c].req = r]
    /\ UNCHANGED <<wire, rbuf, back, srv, storevars>>

\* SocketClient::reconnect: under the lock, a connection that is closed is
\* replaced by a new one, which the accept loop hands to a new handler task;
\* the lock is released on return
Reconnect(c) ==
    /\ cli.calls[c].pc = "reconnect"
    /\ Holder = {}
    /\ cli' = [cli EXCEPT !.calls[c].pc = "send"]
    /\ IF Usable
       THEN UNCHANGED <<wire, rbuf, back, srv>>
       ELSE /\ wire' = <<>>
            /\ rbuf' = <<>>
            /\ back' = <<>>
            /\ srv' = Accepted
    /\ UNCHANGED storevars

\* SocketClient::send_request: the lock is taken and the frame written with
\* write_all; a write on a connection the server has closed fails and the
\* call returns the error
Send(c) ==
    /\ cli.calls[c].pc = "send"
    /\ Holder = {}
    /\ IF Usable
       THEN /\ wire' = wire \o Frame(VerifyMethod, Json(ReqToken(cli.calls[c].req)))
            /\ cli' = [cli EXCEPT !.sent = Append(@, Piece("verify", cli.calls[c].req, 0, "client")),
                                  !.pc = "res_ident", !.data = <<>>,
                                  !.calls[c].pc = "locked"]
       ELSE /\ wire' = wire
            /\ cli' = Finished(c, Err("io", "broken pipe"))
    /\ UNCHANGED <<rbuf, back, srv, storevars>>

\* SocketClient::send_request: parse_response has returned, the lock guard is
\* dropped and the caller has its result
Return(c) ==
    /\ cli.calls[c].pc = "locked"
    /\ cli.pc = "idle"
    /\ cli' = Finished(c, cli.res)
    /\ UNCHANGED <<wire, rbuf, back, srv, storevars>>

\* perform_read: a read of the stream fails with an I/O error, handle shuts
\* the stream down and the connection task ends with the error
ReadError ==
    /\ srv.pc \in {"ident", "method", "body", "term"}
    /\ srv' = [srv EXCEPT !.pc = "closed_err"]
    /\ UNCHANGED <<wire, rbuf, back, cli, storevars>>

\* ClientSpec: NumCallers tasks share one SocketClient and each calls verify
\* once; the server's connection task and the tasks inside the client keep
\* running whenever they can take a step. The client writes whole frames,
\* so the server's BadRequest arm is not reached.
ClientInit == InitStore /\ faults = 0 /\ \A u \in Users : cache[1][u].some

ClientNext ==
    \/ \E c \in Callers : Call(c)
    \/ \E c \in Callers : Reconnect(c)
    \/ \E c \in Callers : Send(c)
    \/ \E c \in Callers : Return(c)
    \/ ParseResponse
    \/ ParseIdent
    \/ ParseMethod
    \/ ParseBody
    \/ ParseTerm
    \/ Serve
    \/ ReadError

ClientSpec ==
    /\ ClientInit
    /\ [][ClientNext]_vars
    /\ WF_vars(ServerStep)
    /\ WF_vars(ParseResponse)
    /\ \A c \in Callers :
          WF_vars(Call(c)) /\ WF_vars(Reconnect(c)) /\ WF_vars(Send(c)) /\ WF_vars(Return(c))

\* ============================================================== properties
H == DOMAIN hist

\* the verify of entry h was answered, on the bus and on the socket, with a
\* VerificationResponse carrying these flags
Answered(h, valid, needs_reset) ==
    \A env \in {h.nats, h.socket} :
        /\ env.success
        /\ env.response.some
        /\ env.response.val.valid = valid
        /\ env.response.val.needs_password_reset = needs_reset

Valid(h) ==
    h.nats.success /\ h.nats.response.some /\ h.nats.response.val.valid

IsVerify(h, u, p) == h.action = "verify" /\ h.username = u /\ h.password = p

ResetOk(h) == h.action = "reset_password" /\ h.res.ok

\* the password whose hash is h
Matches(hashed, p) == hashed.digest[1] = p

\* C1: after reset_password(u) returned (t, e), the first verify(u, t) made
\* before e is valid with needs_password_reset, and the verify(u, t) that
\* directly follows it is not valid.
C1_TempPasswordSingleUse ==
    \A i \in H :
        (/\ i + 2 \in H
         /\ ResetOk(hist[i])
         /\ IsVerify(hist[i + 1], hist[i].username, hist[i].res.val.temp_password)
         /\ hist[i + 1].at < hist[i].res.val.expires_at
         /\ IsVerify(hist[i + 2], hist[i].username, hist[i].res.val.temp_password))
        => /\ Answered(hist[i + 1], TRUE, TRUE)
           /\ ~Valid(hist[i + 2])

\* the temporary password was used for two verifies in a row before it expired
C1_Witness ==
    \E i \in H :
        /\ i + 2 \in H
        /\ ResetOk(hist[i])
        /\ IsVerify(hist[i + 1], hist[i].username, hist[i].res.val.temp_password)
        /\ IsVerify(hist[i + 2], hist[i].username, hist[i].res.val.temp_password)
        /\ hist[i + 2].at < hist[i].res.val.expires_at

\* a verify that found the user in Reset(e) at a time now >= e
ExpiredResetVerify(h) ==
    /\ h.action = "verify"
    /\ h.seen.some
    /\ h.seen.val.password_reset.kind = "Reset"
    /\ h.at >= h.seen.val.password_reset.expiry

\* C2: a verify of a user in Reset(e) at a time now >= e is answered
\* valid=false, needs_password_reset=true, whatever the password, and leaves
\* the stored phase (bucket and serving cache) Locked.
C2_ExpiredResetLocks ==
    \A i \in H :
        ExpiredResetVerify(hist[i])
        => /\ Answered(hist[i], FALSE, TRUE)
           /\ hist[i].stored.some
           /\ hist[i].stored.val.password_reset = Locked
           /\ hist[i].cached = hist[i].stored

C2_Witness ==
    \E i \in H :
        /\ ExpiredResetVerify(hist[i])
        /\ verify_password(hist[i].seen.val, hist[i].password)
        /\ hist[i].stored.val.password_reset = Locked

ChangeOk(h) == h.action = "change_password" /\ h.res.ok

\* C3: after a successful change_password(u, old, new) the stored phase is
\* None, a following verify(u, new) is valid and, when old # new, a following
\* verify(u, old) is not.
C3_ChangePassword ==
    \A i \in H :
        ChangeOk(hist[i])
        => /\ hist[i].stored.some
           /\ hist[i].stored.val.password_reset = NoPhase
           /\ hist[i].cached = hist[i].stored
           /\ (i + 1 \in H /\ IsVerify(hist[i + 1], hist[i].username, hist[i].new_password))
                => Answered(hist[i + 1], TRUE, FALSE)
           /\ (/\ i + 1 \in H
               /\ hist[i].password # hist[i].new_password
               /\ IsVerify(hist[i + 1], hist[i].username, hist[i].password))
                => ~Valid(hist[i + 1])

C3_Witness ==
    \E i \in H :
        /\ ChangeOk(hist[i])
        /\ hist[i].password # hist[i].new_password
        /\ i + 1 \in H
        /\ IsVerify(hist[i + 1], hist[i].username, hist[i].password)
        /\ ~Valid(hist[i + 1])

\* add_user with force_password_change succeeded and the next call is a
\* change_password with the initial password, made before the expiry
ForcedThenChange(i) ==
    /\ i + 1 \in H
    /\ hist[i].action = "add_user" /\ hist[i].res.ok /\ hist[i].force
    /\ hist[i + 1].action = "change_password"
    /\ hist[i + 1].username = hist[i].username
    /\ hist[i + 1].password = hist[i].password
    /\ hist[i + 1].at < hist[i].stored.val.password_reset.expiry

\* C4: for a user created with force_password_change, a change_password with
\* the initial password made before the expiry as the first call on the
\* account succeeds, and a following verify with the new password is valid
\* with needs_password_reset=false.
C4_ForcedFirstChange ==
    \A i \in H :
        ForcedThenChange(i)
        => /\ hist[i + 1].res.ok
           /\ (i + 2 \in H /\ IsVerify(hist[i + 2], hist[i].username, hist[i + 1].new_password))
                => Answered(hist[i + 2], TRUE, FALSE)

C4_Witness ==
    \E i \in H :
        /\ ForcedThenChange(i)
        /\ i + 2 \in H
        /\ IsVerify(hist[i + 2], hist[i].username, hist[i + 1].new_password)
        /\ Valid(hist[i + 2])

\* add_user succeeded and the next call is a verify with the same password
AddThenVerify(i) ==
    /\ i + 1 \in H
    /\ hist[i].action = "add_user" /\ hist[i].res.ok
    /\ IsVerify(hist[i + 1], hist[i].username, hist[i].password)

\* C5 as stated: after add_user(u, p, G, force) the first verify(u, p) has
\* valid == ~force and needs_password_reset == force.
C5_Original ==
    \A i \in H :
        AddThenVerify(i) => Answered(hist[i + 1], ~hist[i].force, hist[i].force)

\* C5 amended: the first verify(u, p) has needs_password_reset == force and
\* is valid unless force is set and the verify is made at or after the expiry
\* of the forced reset.
C5_FirstVerify ==
    \A i \in H :
        AddThenVerify(i)
        => Answered(hist[i + 1],
                    ~hist[i].force
                      \/ hist[i + 1].at < hist[i].stored.val.password_reset.expiry,
                    hist[i].force)

C5_Witness ==
    \E i \in H :
        /\ AddThenVerify(i)
        /\ hist[i].force
        /\ Answered(hist[i + 1], TRUE, TRUE)

\* what a handler failure of verify must be answered with
VerifyFailureEnvelope(h, env) ==
    CASE h.res.err = "InvalidCredentials" ->
            /\ env.success
            /\ env.response = Some([valid |-> FALSE,
                                    message |-> "Invalid username or password",
                                    needs_password_reset |-> FALSE, groups |-> {}])
      [] h.res.err = "PasswordResetExpired" ->
            /\ env.success
            /\ env.response = Some([valid |-> FALSE,
                                    message |-> "Password reset has expired",
                                    needs_password_reset |-> TRUE, groups |-> {}])
      [] OTHER ->
            /\ ~env.success
            /\ env.response = None

C7_UnknownUserVerify ==
    \A i \in H :
        (hist[i].action = "verify" /\ hist[i].res.err = "UsernameDoesNotExist")
        => /\ hist[i].client.ok
           /\ ~hist[i].client.val.valid

C7_Witness ==
    \E i \in H : hist[i].action = "verify" /\ hist[i].res.err = "UsernameDoesNotExist"

\* a change_password on an existing user with an old password that does not
\* match the stored hash
WrongOldPassword(h) ==
    /\ h.action = "change_password"
    /\ h.seen.some
    /\ ~Matches(h.seen.val.hashed_password, h.password)

\* the verify of entry i + 1 uses the password stored when entry i began
VerifyOriginal(i) ==
    /\ i + 1 \in H
    /\ hist[i + 1].action = "verify"
    /\ hist[i + 1].username = hist[i].username
    /\ Matches(hist[i].seen.val.hashed_password, hist[i + 1].password)

\* C8 as stated: such a change_password fails with InvalidCredentials, leaves
\* the stored hash unchanged, and a following verify with the original
\* password succeeds.
C8_Original ==
    \A i \in H :
        WrongOldPassword(hist[i])
        => /\ hist[i].res.err = "InvalidCredentials"
           /\ hist[i].stored.val.hashed_password = hist[i].seen.val.hashed_password
           /\ VerifyOriginal(i) => Valid(hist[i + 1])

\* the reset state machine denies a call that finds this record at time at
Denied(user, at) ==
    \/ user.password_reset.kind = "Locked"
    \/ /\ user.password_reset.kind \in {"Reset", "InitialLogin"}
       /\ at >= user.password_reset.expiry

\* C8 amended: such a change_password never changes the stored hash; it fails
\* with PasswordResetExpired when the reset state machine denies the call
\* (phase Locked, or a reset at or past its expiry) and with
\* InvalidCredentials otherwise; for a user in phase None the whole record is
\* unchanged and a following verify with the original password succeeds.
C8_WrongOldPassword ==
    \A i \in H :
        WrongOldPassword(hist[i])
        => /\ hist[i].res.err = IF Denied(hist[i].seen.val, hist[i].at)
                                THEN "PasswordResetExpired"
                                ELSE "InvalidCredentials"
           /\ hist[i].stored.some
           /\ hist[i].stored.val.hashed_password = hist[i].seen.val.hashed_password
           /\ hist[i].seen.val.password_reset = NoPhase
                => /\ hist[i].stored = hist[i].seen
                   /\ hist[i].cached = hist[i].seen
                   /\ VerifyOriginal(i) => Answered(hist[i + 1], TRUE, FALSE)

C8_Witness ==
    \E i \in H :
        /\ WrongOldPassword(hist[i])
        /\ hist[i].seen.val.password_reset = NoPhase
        /\ hist[i].res.err = "InvalidCredentials"
        /\ VerifyOriginal(i)
        /\ Valid(hist[i + 1])

\* task t is at the lookup of CredStore::exists that finds the username
ExistsHit(t) ==
    \/ /\ task[t].pc = "exists_cache"
       /\ cache[task[t].rep][task[t].username].some
    \/ /\ task[t].pc = "exists_store"
       /\ bucket[task[t].username].operation = "Put"

\* C9: an add_user whose lookup finds the username in the local cache or, on
\* a cache miss, in the bucket fails with UsernameTaken and leaves bucket and
\* caches as they are.
C9_UsernameTaken ==
    [][\A t \in Tasks :
          (ExistsHit(t) /\ task'[t] # task[t])
          => /\ task'[t].pc = "idle"
             /\ task'[t].res = UsernameTaken
             /\ bucket' = bucket
             /\ cache' = cache]_vars

\* an add_user missed its cache, found the user in the bucket and was refused
C9_Witness ==
    \E t \in Tasks :
        /\ task[t].pc = "idle"
        /\ task[t].action = "add_user"
        /\ task[t].from = "exists_store"
        /\ task[t].res = UsernameTaken

\* C10: creating a user is atomic: the update of an add_user is accepted only
\* when the key holds no live record, so that of several add_user calls for
\* one username at most one succeeds and its record is not overwritten by
\* another add_user.
C10_AtomicCreate ==
    [][\A t \in Tasks :
          (/\ task[t].op = "add"
           /\ task[t].pc = "put_update"
           /\ task'[t].pc = "put_cache")
          => bucket[task[t].username].operation # "Put"]_vars

\* two add_user calls for one username are past the lookup at the same time
C10_Witness ==
    \E t1, t2 \in Tasks :
        /\ t1 # t2
        /\ task[t1].op = "add" /\ task[t2].op = "add"
        /\ task[t1].username = task[t2].username
        /\ task[t1].pc = "put_entry" /\ task[t2].pc = "put_entry"

\* the bucket's latest entry of u is the one of revision n
Latest(u, n) == bucket[u].revision = n

\* the entry of revision n of key u waits in the change feed of replica r
InFeed(r, u, n) ==
    \E i \in 1..Len(feed[r]) : feed[r][i].key = u /\ feed[r][i].revision = n

\* C11: a put_user or delete_user accepted by the bucket (the key's entry of
\* revision n, published to the change feeds) becomes observable through
\* get_user on every replica whose watcher keeps taking its feed: the
\* replica's cache comes to hold that record (none for a delete), unless a
\* later write to the key has replaced the entry by then.
C11_Convergence ==
    \A r \in Replicas, u \in Users, n \in 1..(StoreMaxOps + 1) :
        InFeed(r, u, n) ~> (~Latest(u, n) \/ cache[r][u] = Stored(bucket, u))

\* an add_user made on replica 1 is the only call so far and replica 2 sees
\* its record
C11_Witness ==
    \E t \in Tasks, u \in Users :
        /\ ops = 1
        /\ task[t].pc = "idle" /\ task[t].op = "add" /\ task[t].res.ok
        /\ task[t].username = u
        /\ bucket[u].operation = "Put"
        /\ cache[2][u] = Stored(bucket, u)

\* C12: in every quiescent state each replica's cache holds exactly the
\* users whose key is live in the bucket, each with the bucket's record.
C12_CacheMatchesBucket ==
    Quiescent => \A r \in Replicas, u \in Users : cache[r][u] = Stored(bucket, u)

\* task t takes a step of a put_user that is at program point pc
PutStep(t, pc) == task[t].pc = pc /\ task'[t] # task[t]

\* C13: put_user changes the cache only after its update was acknowledged:
\* the steps that fetch the revision and send the update leave every cache
\* as it is, and when one of them ends the call it ends with an error and
\* an unchanged bucket; the cache insert is reached only from an update the
\* bucket accepted, and it inserts the record the bucket was given.
C13_CacheAfterBucket ==
    [][\A t \in Tasks :
          /\ (PutStep(t, "put_entry") \/ PutStep(t, "put_update"))
             => /\ cache' = cache
                /\ task'[t].pc = "idle"
                     => /\ task'[t].res.err = "SystemError"
                        /\ bucket' = bucket
          /\ (task'[t].pc = "put_cache" /\ task[t].pc # "put_cache")
             => /\ task[t].pc = "put_update"
                /\ bucket'[task[t].username].operation = "Put"
                /\ bucket'[task[t].username].value = Encode(task[t].info)
          /\ PutStep(t, "put_cache")
             => cache' = [cache EXCEPT ![task[t].rep][task[t].username] =
                             Some(task[t].info)]]_vars

\* a put_user ended with an error of the bucket when it fetched the revision
C13_Witness ==
    \E t \in Tasks :
        /\ task[t].pc = "idle"
        /\ task[t].from = "put_entry"
        /\ task[t].res = SystemError("Unable to fetch current revision")

\* t2 is another put_user on the key of t that fetched the same revision and
\* has not sent its update yet
Racing(t, t2) ==
    /\ t2 # t
    /\ task[t2].pc = "put_update"
    /\ task[t2].username = task[t].username
    /\ task[t2].revision = task[t].revision

\* C14: the update of put_user is accepted only at the revision it fetched;
\* an accepted update leaves every racing put_user with a revision the
\* bucket no longer has, and an update at another revision ends the call
\* with a system error, without another attempt and without changing the
\* bucket, the change feeds or any cache.
C14_OptimisticPut ==
    [][\A t \in Tasks :
          PutStep(t, "put_update")
          => IF bucket[task[t].username].revision = task[t].revision
             THEN /\ task'[t].pc = "put_cache"
                  /\ bucket'[task[t].username].revision = seq + 1
                  /\ \A t2 \in Tasks :
                        Racing(t, t2)
                        => task'[t2].revision # bucket'[task[t].username].revision
             ELSE /\ task'[t].pc = "idle"
                  /\ task'[t].res = SystemError("Unable to update store")
                  /\ bucket' = bucket
                  /\ feed' = feed
                  /\ cache' = cache]_vars

\* two put_user calls fetched the same revision; one was accepted, the other
\* was refused
C14_Witness ==
    \E t1, t2 \in Tasks :
        /\ t1 # t2
        /\ task[t1].username = task[t2].username
        /\ task[t1].pc = "idle" /\ task[t1].from = "put_update"
        /\ task[t1].res = SystemError("Unable to update store")
        /\ task[t2].pc = "put_cache"
        /\ task[t2].revision < bucket[task[t2].username].revision

\* C15: the admin server runs the delete_groups handler for a remove_groups
\* request, and a successful remove_groups of G for user u answers and
\* stores groups(u) \ G.
C15_RemoveGroups ==
    \A i \in H :
        hist[i].action = "remove_groups"
        => /\ hist[i].op = "delete_groups"
           /\ hist[i].res.ok
                => /\ hist[i].nats.response = Some(hist[i].seen.val.groups \ hist[i].groups)
                   /\ hist[i].stored.val.groups = hist[i].seen.val.groups \ hist[i].groups

\* what add_groups / delete_groups make of the groups cur with the set G
GroupsAfter(op, cur, G) == IF op = "add_groups" THEN cur \cup G ELSE cur \ G

\* C16: add_groups(u, G) returns and stores original \cup G, delete_groups(u, G)
\* returns and stores current \ G, both fail with UsernameDoesNotExist for
\* an absent user, and add_groups(u, G) followed by delete_groups(u, G)
\* leaves the groups equal to original \ G.
C16_GroupArithmetic ==
    \A i \in H :
        hist[i].op \in {"add_groups", "delete_groups"}
        => /\ ~hist[i].seen.some => hist[i].res = UsernameDoesNotExist
           /\ hist[i].seen.some
                => /\ hist[i].res =
                        Ok(GroupsAfter(hist[i].op, hist[i].seen.val.groups, hist[i].groups))
                   /\ hist[i].stored.some
                   /\ hist[i].stored.val.groups = hist[i].res.val
                   /\ hist[i].cached = hist[i].stored
                   /\ (/\ hist[i].op = "add_groups"
                       /\ i + 1 \in H
                       /\ hist[i + 1].op = "delete_groups"
                       /\ hist[i + 1].username = hist[i].username
                       /\ hist[i + 1].groups = hist[i].groups)
                      => /\ hist[i + 1].res.ok
                         /\ hist[i + 1].res.val = hist[i].seen.val.groups \ hist[i].groups
                         /\ hist[i + 1].stored.val.groups = hist[i + 1].res.val

\* add_groups(u, G) on a user who already has a group of G, then
\* delete_groups(u, G)
C16_Witness ==
    \E i \in H :
        /\ i + 1 \in H
        /\ hist[i].op = "add_groups" /\ hist[i].res.ok
        /\ hist[i].seen.val.groups \cap hist[i].groups # {}
        /\ hist[i].seen.val.groups \ hist[i].groups # {}
        /\ hist[i + 1].op = "delete_groups" /\ hist[i + 1].res.ok
        /\ hist[i + 1].groups = hist[i].groups

\* ---- the response frames on the connection, when nothing has read them
FrameLen == Len(RESPONSE_IDENTIFIER) + Len(Json(0)) + Len(TERMINATOR)
NumResponses == Len(back) \div FrameLen

\* the envelope of the i-th response frame, if the bytes are such a frame
ResponseAt(i) ==
    LET f == SubSeq(back, (i - 1) * FrameLen + 1, i * FrameLen)
        n == Len(RESPONSE_IDENTIFIER)
    IN IF /\ SubSeq(f, 1, n) = RESPONSE_IDENTIFIER
          /\ SubSeq(f, FrameLen - Len(TERMINATOR) + 1, FrameLen) = TERMINATOR
       THEN JsonValue(SubSeq(f, n + 1, FrameLen - Len(TERMINATOR)))
       ELSE None

\* env is the right answer to the request: a verify of the stored password
\* is valid, a verify of another password is answered as not valid, an
\* unknown method is refused as such, a malformed request is refused
Correct(piece, env) ==
    CASE piece.kind = "verify" ->
            /\ env.success
            /\ env.response.some
            /\ env.response.val.valid = (SockRequests[piece.req].password = <<"pw", 1>>)
      [] piece.kind = "unknown" ->
            ~env.success /\ env.message = <<"Unknown method">>
      [] OTHER -> ~env.success /\ ~env.response.some

\* only a peer that does not read has written, and the server has consumed
\* all it wrote
RawOnly == \A i \in 1..Len(cli.sent) : cli.sent[i].via = "raw"
Consumed == srv.pc \in {"ident", "closed_ok"} /\ Avail = <<>>

\* every response frame so far answers the request of the same position, and
\* once the input is consumed there is a response for every request
AnsweredInOrder ==
    /\ Len(back) = NumResponses * FrameLen
    /\ NumResponses <= Len(cli.sent)
    /\ \A i \in 1..NumResponses :
          ResponseAt(i).some /\ Correct(cli.sent[i], ResponseAt(i).val)
    /\ Consumed => NumResponses = Len(cli.sent)

\* C17: when every malformed request on the connection leaves at most 2048
\* bytes behind, the server stays on the connection, answers each malformed
\* request with success=false and answers the well-formed frames that follow
\* correctly.
C17_Resync ==
    (/\ RawOnly
     /\ cli.open
     /\ \A i \in 1..Len(cli.sent) : cli.sent[i].pad <= MISBEHAVING_LIMIT)
    => /\ srv.pc \notin {"closed_ok", "closed_err"}
       /\ AnsweredInOrder

\* C18: consume_leftover closes the connection with an error if more than
\* 2048 bytes are left to drain, and otherwise drains them and keeps the
\* connection of a peer that is still there.
C18_GarbageLimit ==
    [][(srv.pc = "drain" /\ srv' # srv)
       => IF Len(rbuf) + Len(wire) > MISBEHAVING_LIMIT
          THEN srv'.pc = "closed_err"
          ELSE cli.open => (srv'.pc = "ident" /\ rbuf' = <<>> /\ wire' = <<>>)]_vars

\* C19: when all N requests written on the connection are well-formed
\* frames, the responses are frames in the order of the requests, each the
\* right answer to its request, and once the server has consumed the input
\* there are exactly N of them.
C19_SerialService ==
    (RawOnly /\ \A i \in 1..Len(cli.sent) : WellFormed(cli.sent[i]))
    => /\ srv.pc # "closed_err"
       /\ AnsweredInOrder

\* two different well-formed requests were on the connection at once and
\* both have their answer
C19_Witness ==
    /\ RawOnly
    /\ Len(cli.sent) = SockMaxReqs
    /\ \A i \in 1..Len(cli.sent) : WellFormed(cli.sent[i])
    /\ cli.sent[1] # cli.sent[2]
    /\ NumResponses = Len(cli.sent)
    /\ srv.pc = "ident"

\* C20: a SocketClient verify of the stored password returns to its caller
\* with the server's response, valid=true.
C20_RoundTrip ==
    (/\ cli.pc = "res_ident"
     /\ SockRequests[cli.sent[Len(cli.sent)].req].password = <<"pw", 1>>)
    ~> (cli.pc = "idle" /\ cli.res.ok /\ cli.res.val.valid)

\* the operations whose success carries a payload, and those that only
\* acknowledge
PayloadBearing ==
    {"verify", "get_user", "list_users", "reset_password", "add_groups", "remove_groups"}
AckOnly == {"add_user", "remove_user", "change_password"}

FromServer(h) == h.server \in {"nats", "socket"}

\* C21: an envelope a server emits with success=false has no payload and a
\* non-empty message; one emitted with success=true has a payload when the
\* operation is payload-bearing and none when it only acknowledges.
C21_EnvelopeInvariant ==
    \A i \in H :
        FromServer(hist[i])
        => LET env == hist[i].env IN
           /\ ~env.success => (~env.response.some /\ env.message # <<>>)
           /\ (env.success /\ hist[i].action \in PayloadBearing) => env.response.some
           /\ (env.success /\ hist[i].action \in AckOnly) => ~env.response.some

\* the admin server answered a list_users with its payload and the socket
\* server answered an error
C21_Witness ==
    \E i, j \in H :
        /\ hist[i].server = "nats" /\ hist[i].action = "list_users"
        /\ hist[i].env.success /\ hist[i].env.response.some
        /\ hist[j].server = "socket" /\ ~hist[j].env.success

\* C22: into_result_required returns the payload iff success=true and a
\* response is present; with success=true and no response it returns the
\* error "Request was successful but contained no response"; with
\* success=false it returns an error with the envelope's message, whether or
\* not a response is present.
C22_IntoResultRequired ==
    \A i \in H :
        LET env == hist[i].env
            r == hist[i].required
        IN /\ r.ok <=> (env.success /\ env.response.some)
           /\ r.ok => r.val = env.response.val
           /\ (env.success /\ ~env.response.some)
                => r.text = "Request was successful but contained no response"
           /\ ~env.success => r.text = env.message

\* an envelope with success=false and a response was decoded
C22_Witness ==
    \E i \in H :
        /\ hist[i].server = "peer"
        /\ ~hist[i].env.success
        /\ hist[i].env.response.some
        /\ ~hist[i].required.ok

\* the construction of the CredStore of replica r returns with this step
Returns(r) == boot[r].pc = "entries" /\ boot'[r].pc = "running"

\* C23: when the construction of a CredStore returns, with no write to the
\* bucket since it began, the cache holds exactly the keys whose latest
\* bucket entry is a Put, each with the stored record (get_user returns the
\* users put through another CredStore before).
C23_Reinitialisation ==
    [][\A r \in Replicas :
          (Returns(r) /\ boot[r].began = seq)
          => \A u \in Users : cache'[r][u] = Stored(bucket, u)]_vars

\* a CredStore was constructed on a bucket written through another CredStore
\* before (more entries than the initial ones) and holds its user
C23_Witness ==
    /\ boot[Booting].pc = "running"
    /\ boot[Booting].began = seq
    /\ seq > Cardinality(Users)
    /\ \E u \in Users : cache[Booting][u].some

\* C25: once the CredStore constructed during the writes of another writer
\* has applied the change-feed entries buffered for it, its cache holds what
\* the bucket holds.
C25_NoLostUpdate ==
    (boot[Booting].pc = "running" /\ feed[Booting] = <<>>)
    => \A u \in Users : cache[Booting][u] = Stored(bucket, u)

\* the bucket was written while the CredStore was being constructed, the
\* snapshot it installed was older than the bucket, and it has caught up
C25_Witness ==
    /\ boot[Booting].pc = "running"
    /\ feed[Booting] = <<>>
    /\ boot[Booting].began < seq
    /\ \E u \in Users :
          /\ boot[Booting].data[u].revision # bucket[u].revision
          /\ boot[Booting].data[u].operation = "Put"
          /\ cache[Booting][u] = Stored(bucket, u)

\* entry i + 1 is a get_user of the username of entry i
GetUserNext(i) ==
    /\ i + 1 \in H
    /\ hist[i + 1].action = "get_user"
    /\ hist[i + 1].username = hist[i].username

StoredPhase(b, u) == IF Stored(b, u).some THEN Stored(b, u).val.password_reset.kind ELSE "Absent"

\* task t is a verify or change_password about to read a user its replica
\* holds as Locked
ReadsLocked(t) ==
    /\ task[t].pc = "get_user"
    /\ task[t].op \in {"verify", "change_password"}
    /\ cache[task[t].rep][task[t].username].some
    /\ cache[task[t].rep][task[t].username].val.password_reset = Locked

\* C26: a verify or change_password that finds the user Locked fails with
\* PasswordResetExpired and writes nothing, and in every interleaving the
\* stored phase leaves Locked only with the write of a reset_password.
C26_LockedAbsorbing ==
    [][/\ \A t \in Tasks :
             (ReadsLocked(t) /\ task'[t] # task[t])
             => /\ task'[t].pc = "idle"
                /\ task'[t].res = PasswordResetExpired
                /\ bucket' = bucket
       /\ \A u \in Users :
             (StoredPhase(bucket, u) = "Locked" /\ StoredPhase(bucket', u) # "Locked")
             => \E t \in Tasks :
                   /\ task[t].op = "reset_password"
                   /\ task[t].pc = "put_update"
                   /\ task'[t].pc = "put_cache"]_vars

\* entry h is a call of this action that found its user in phase InitialLogin
OnInitialLogin(h, action) ==
    /\ h.action = action
    /\ h.seen.some
    /\ h.seen.val.password_reset.kind = "InitialLogin"

\* C27: a verify that finds the user in phase InitialLogin(e) is denied with
\* PasswordResetExpired and leaves the stored phase Locked, whatever the
\* password and the time; a get_user that follows reports phase Locked.
C27_VerifyLocksInitialLogin ==
    \A i \in H :
        OnInitialLogin(hist[i], "verify")
        => /\ hist[i].res = PasswordResetExpired
           /\ hist[i].stored.some
           /\ hist[i].stored.val.password_reset = Locked
           /\ GetUserNext(i)
                => /\ hist[i + 1].res.ok
                   /\ hist[i + 1].res.val.password_change_phase = Locked

\* entry h began before the expiry of the reset it found
BeforeExpiry(h) == h.at < h.seen.val.password_reset.expiry

\* C28: a change_password that finds the user in phase InitialLogin(e) before
\* e does not lock: with a wrong old password it fails with
\* InvalidCredentials and the stored record is the one it found; with the
\* temporary password it succeeds and the stored record holds the new hash
\* and phase None; and the stored phase goes from InitialLogin to None only
\* in a write that also replaces the hash.
C28_ChangeOnInitialLogin ==
    [][/\ Len(hist') > Len(hist)
          => LET h == hist'[Len(hist')] IN
             (OnInitialLogin(h, "change_password") /\ BeforeExpiry(h))
             => IF Matches(h.seen.val.hashed_password, h.password)
                THEN /\ h.res.ok
                     /\ h.nats.success
                     /\ h.stored.some
                     /\ h.stored.val.password_reset = NoPhase
                     /\ Matches(h.stored.val.hashed_password, h.new_password)
                     /\ h.stored.val.groups = h.seen.val.groups
                ELSE /\ h.res = InvalidCredentials
                     /\ ~h.nats.success
                     /\ h.stored = h.seen
       /\ \A u \in Users :
             (StoredPhase(bucket, u) = "InitialLogin" /\ StoredPhase(bucket', u) = "None")
             => Stored(bucket', u).val.hashed_password
                   # Stored(bucket, u).val.hashed_password]_vars

C28_Witness ==
    \E i \in H :
        /\ OnInitialLogin(hist[i], "change_password")
        /\ BeforeExpiry(hist[i])
        /\ hist[i].res.ok
        /\ hist[i].stored.val.password_reset = NoPhase
        /\ hist[i].stored.val.hashed_password # hist[i].seen.val.hashed_password

\* C29: a change_password that finds the user in phase InitialLogin(e) at a
\* time now >= e fails with PasswordResetExpired, also with the correct
\* temporary password, and leaves the stored hash as it was and the stored
\* phase Locked.
C29_ChangeAfterExpiry ==
    \A i \in H :
        (OnInitialLogin(hist[i], "change_password") /\ ~BeforeExpiry(hist[i]))
        => /\ hist[i].res = PasswordResetExpired
           /\ ~hist[i].nats.success
           /\ hist[i].stored.some
           /\ hist[i].stored.val.hashed_password = hist[i].seen.val.hashed_password
           /\ hist[i].stored.val.password_reset = Locked

C29_Witness ==
    \E i \in H :
        /\ OnInitialLogin(hist[i], "change_password")
        /\ hist[i].at = hist[i].seen.val.password_reset.expiry
        /\ Matches(hist[i].seen.val.hashed_password, hist[i].password)
        /\ hist[i].res = PasswordResetExpired
        /\ hist[i].stored.val.password_reset = Locked

\* the temporary password entry i returned was not returned by an earlier
\* reset_password
FreshToken(i) ==
    \A j \in H :
        (j < i /\ ResetOk(hist[j]))
        => hist[j].res.val.temp_password # hist[i].res.val.temp_password

\* C30: reset_password on an existing user, whatever its phase, stores the
\* hash of a fresh temporary password and phase Reset(expires_at), where
\* expires_at is the returned value and 24 hours after the call's time, and
\* keeps the groups; the password stored before no longer verifies. For an
\* absent user it fails with UsernameDoesNotExist and stores nothing.
C30_ResetPassword ==
    \A i \in H :
        hist[i].action = "reset_password"
        => IF hist[i].seen.some
           THEN /\ hist[i].res.ok
                /\ hist[i].nats.success
                /\ FreshToken(i)
                /\ hist[i].stored.some
                /\ Matches(hist[i].stored.val.hashed_password,
                           hist[i].res.val.temp_password)
                /\ \A p \in Passwords \cup issued :
                      Matches(hist[i].seen.val.hashed_password, p)
                      => ~verify_password(hist[i].stored.val, p)
                /\ hist[i].stored.val.password_reset = Reset(hist[i].res.val.expires_at)
                /\ hist[i].res.val.expires_at = hist[i].at + DEFAULT_RESET_EXPIRY
                /\ hist[i].stored.val.groups = hist[i].seen.val.groups
                /\ VerifyOriginal(i) => ~Valid(hist[i + 1])
           ELSE /\ hist[i].res = UsernameDoesNotExist
                /\ ~hist[i].nats.success
                /\ hist[i].stored = None

C30_Witness ==
    \E i \in H :
        /\ hist[i].action = "reset_password"
        /\ hist[i].seen.some
        /\ hist[i].seen.val.password_reset = Locked
        /\ hist[i].at > 0
        /\ hist[i].res.ok
        /\ hist[i].stored.val.password_reset.kind = "Reset"

\* entry h is a group operation on a user that exists
GroupOp(h) ==
    /\ h.action \in {"add_groups", "delete_groups", "remove_groups"}
    /\ h.seen.some

\* C31: add_groups and delete_groups succeed whatever the reset phase of the
\* user, Locked included, and the record stored afterwards has the hash and
\* the phase the call found; only the group set changes, by the union or the
\* difference with the groups given.
C31_GroupsIndependent ==
    \A i \in H :
        GroupOp(hist[i])
        => /\ hist[i].res.ok
           /\ hist[i].stored.some
           /\ hist[i].stored.val.hashed_password = hist[i].seen.val.hashed_password
           /\ hist[i].stored.val.password_reset = hist[i].seen.val.password_reset
           /\ hist[i].action = "add_groups"
                => hist[i].stored.val.groups = hist[i].seen.val.groups \cup hist[i].groups
           /\ hist[i].action = "delete_groups"
                => hist[i].stored.val.groups = hist[i].seen.val.groups \ hist[i].groups

C31_Witness ==
    \E i \in H :
        /\ hist[i].action = "add_groups"
        /\ hist[i].seen.some
        /\ hist[i].seen.val.password_reset = Locked
        /\ hist[i].res.ok
        /\ hist[i].stored.val.password_reset = Locked
        /\ hist[i].stored.val.groups # hist[i].seen.val.groups

\* task t is a verify about to read a user its replica holds in phase None
ReadsNoPhase(t) ==
    /\ task[t].pc = "get_user"
    /\ task[t].op = "verify"
    /\ cache[task[t].rep][task[t].username].some
    /\ cache[task[t].rep][task[t].username].val.password_reset = NoPhase

\* C32: a verify of a user in phase None writes neither the bucket nor a
\* cache, whatever else is in flight, and returns what the record it read
\* gives on its own: valid without needs_password_reset when the password
\* matches the hash, InvalidCredentials otherwise.
C32_VerifyReadOnly ==
    [][\A t \in Tasks :
          (ReadsNoPhase(t) /\ task'[t] # task[t])
          => LET user == cache[task[t].rep][task[t].username].val IN
             /\ bucket' = bucket
             /\ seq' = seq
             /\ feed' = feed
             /\ cache' = cache
             /\ task'[t].pc = "idle"
             /\ task'[t].res =
                   IF Matches(user.hashed_password, task[t].password)
                   THEN Ok([valid |-> TRUE, message |-> "Successfully verified",
                            needs_password_reset |-> FALSE, groups |-> user.groups])
                   ELSE InvalidCredentials]_vars

\* a verify of a user in phase None returned valid while another verify of
\* the same user was in flight, and the bucket holds what it held at the start
C32_Witness ==
    \E t1, t2 \in Tasks :
        /\ t1 # t2
        /\ task[t1].op = "verify"
        /\ task[t1].pc = "idle"
        /\ task[t1].from = "get_user"
        /\ task[t1].res.ok
        /\ task[t2].op = "verify"
        /\ task[t2].pc = "get_user"
        /\ task[t2].username = task[t1].username
        /\ ReadsNoPhase(t2)
        /\ seq = Cardinality(Users)

\* the token parse_incoming is reading is not whole in what the peer wrote
Incomplete ==
    CASE srv.pc = "ident" -> Len(Avail) < Len(REQUEST_IDENTIFIER)
      [] srv.pc = "method" -> IndexOf(Avail, LF) = 0
      [] srv.pc = "body" -> IndexOf(Avail, CR) = 0
      [] srv.pc = "term" -> Len(Avail) < Len(TERMINATOR)
      [] OTHER -> FALSE

\* the peer keeps the connection open and has stopped inside a frame
Stalled == srv.pc \in {"method", "body", "term"} /\ cli.open /\ Incomplete

\* the BadRequest of the timeout of the token being read
TimedOut ==
    CASE srv.pc = "method" -> BadRequest(<<"Timed out reading method">>)
      [] srv.pc = "body" -> BadRequest(<<"Timed out reading body">>)
      [] OTHER -> BadRequest(<<"Timed out reading terminator">>)

\* C33: once the request identifier has been read, a peer that stalls before
\* the end of the method line, of the body or of the terminator does not
\* hold parse_incoming: the read can give up, and when it does the result is
\* the BadRequest of a timeout, not ConnectionClosed; only the read of the
\* identifier waits for as long as the peer sends nothing.
C33_NoBlockInsideFrame ==
    /\ [](Stalled => ENABLED ServerStep)
    /\ []((srv.pc = "ident" /\ cli.open /\ Incomplete) => ~ENABLED ServerStep)
    /\ [][(Stalled /\ srv' # srv) => srv' = TimedOut]_vars

C33_Witness ==
    /\ srv.pc = "drain"
    /\ srv.err = <<"Timed out reading body">>
    /\ cli.open
    /\ cli.sent # <<>>
    /\ cli.sent[Len(cli.sent)].kind = "after_method"

\* the peer has closed the connection and the token parse_incoming is
\* waiting for or reading will not become whole
AtEof == srv.pc \in {"ident", "method", "body", "term"} /\ ~cli.open /\ Incomplete

\* the connection task has shut the socket down and returned
Ended == srv.pc \in {"closed_ok", "closed_err"}

C35_ErrorEnvelopeSent ==
    [][(srv.pc = "drain" /\ srv' # srv)
       => back' = back \o ResponseFrame(ErrorEnvelope(srv.err))]_vars

OwnResponse(c) ==
    /\ cli.calls[c].pc = "done"
    /\ cli.calls[c].res.ok
    /\ cli.calls[c].res.val.valid
         = (SockRequests[cli.calls[c].req].password = <<"pw", 1>>)

\* one task at a time is between the write of its frame and the end of
\* parse_response, and the bytes on the way to the server are whole frames
OneAtATime ==
    /\ Cardinality(Holder) <= 1
    /\ cli.pc # "idle" => Holder # {}
    /\ \E n \in 0..NumCallers :
          Len(Avail) = n * Len(Frame(VerifyMethod, Json(ReqToken(1))))
             \/ srv.pc \in {"method", "body", "term", "closed_err"}

\* C37: when several tasks call verify on one SocketClient at the same time,
\* one task at a time writes its frame and reads the response under the
\* lock, and every task whose connection stays up receives the response to
\* its own request.
C37_SerialisedUse ==
    /\ []OneAtATime
    /\ \A c \in Callers :
          (cli.calls[c].pc = "locked") ~> (OwnResponse(c) \/ ~Usable)

\* the write task t is making is the first of its call: the record it is
\* based on is the one the call read from the cache
FirstWrite(t) ==
    \/ task[t].op \notin {"verify", "change_password"}
    \/ task[t].ret = "enforce"
    \/ task[t].seen.val.password_reset.kind # "Reset"

\* after the call of task t read the record, another call's put of the same
\* user was committed
Overtaken(t) ==
    /\ task[t].seen.some
    /\ FirstWrite(t)
    /\ bucket[task[t].username].operation = "Put"
    /\ bucket[task[t].username].revision > task[t].base

Succeeded(t) == task[t].pc = "idle" /\ task[t].res.ok

\* C38: when a call read the record of its user before another write of that
\* user was committed, its own update is not accepted: its put fails with a
\* system error and the bucket keeps the other write.
C38_ConflictDetected ==
    [][\A t \in Tasks :
          (task[t].pc = "put_update" /\ Overtaken(t) /\ task'[t] # task[t])
          => /\ bucket' = bucket
             /\ task'[t].pc = "idle"
             /\ task'[t].res.err = "SystemError"]_vars

\* a change_password and an add_groups that overlapped have both succeeded
\* and the stored record has the hash the password had before the change
LostPasswordChange ==
    \E t1, t2 \in Tasks :
        /\ Succeeded(t1)
        /\ Succeeded(t2)
        /\ task[t1].op = "change_password"
        /\ task[t2].op = "add_groups"
        /\ task[t1].username = task[t2].username
        /\ task[t1].rep = task[t2].rep
        /\ Stored(bucket, task[t1].username).some
        /\ Stored(bucket, task[t1].username).val.hashed_password = EarlierUser.hashed_password

\* entry h is a verify or change_password that failed on the password
WrongAttempt(h) ==
    /\ h.action \in {"verify", "change_password"}
    /\ h.res = InvalidCredentials

\* C39 as stated: a verify or change_password that fails with
\* InvalidCredentials leaves the stored record as the call found it, also
\* when it found the user in phase Reset.
C39_Original ==
    \A i \in H :
        WrongAttempt(hist[i]) => hist[i].stored = hist[i].seen

\* C39: a verify or change_password that fails with InvalidCredentials leaves
\* the stored hash and groups as the call found them; a call that found
\* phase Reset(e) fails this way only before e and has stored phase
\* InitialLogin(e), and a call that found any other phase has written nothing.
C39_FailedAttempt ==
    \A i \in H :
        WrongAttempt(hist[i])
        => /\ hist[i].seen.some
           /\ hist[i].stored.some
           /\ hist[i].stored.val.hashed_password = hist[i].seen.val.hashed_password
           /\ hist[i].stored.val.groups = hist[i].seen.val.groups
           /\ IF hist[i].seen.val.password_reset.kind = "Reset"
              THEN /\ BeforeExpiry(hist[i])
                   /\ hist[i].stored.val.password_reset
                        = InitialLogin(hist[i].seen.val.password_reset.expiry)
              ELSE hist[i].stored = hist[i].seen

\* a verify with a wrong password found the user in phase Reset and left it
\* in phase InitialLogin
C39_Witness ==
    \E i \in H :
        /\ hist[i].action = "verify"
        /\ hist[i].res = InvalidCredentials
        /\ hist[i].seen.val.password_reset.kind = "Reset"
        /\ hist[i].stored.val.password_reset.kind = "InitialLogin"

\* task t is a verify that found its user in phase Reset(e) before e; its
\* write of InitialLogin(e) was accepted and its password matches, so that
\* the rest of the call returns valid=true
VerifyOnReset(t) ==
    /\ task[t].op = "verify"
    /\ task[t].pc = "put_cache"
    /\ task[t].ret = "enforce"
    /\ task[t].allowed
    /\ task[t].seen.val.password_reset.kind = "Reset"
    /\ verify_password(task[t].info, task[t].password)

\* the verify of task t returned valid=true
ReturnedValid(t) ==
    /\ task[t].pc = "idle"
    /\ task[t].action = "verify"
    /\ task[t].res.ok
    /\ task[t].res.val.valid

\* C40: of the verify calls in flight at the same time that found the same
\* user in phase Reset(e) before e, on one replica or on two, at most one
\* gets through to valid=true.
C40_SingleUseConcurrent ==
    \A t1, t2 \in Tasks :
        (/\ t1 # t2
         /\ task[t1].username = task[t2].username
         /\ VerifyOnReset(t1))
        => ~VerifyOnReset(t2)

====
